---- MODULE Spec2Model ----
(***************************************************************************)
(* A model of the chat MCP server: the calculator handlers                 *)
(* (src/tools/calc_tools.py), the file handlers (src/tools/file_tools.py), *)
(* the permit pool of the web handlers (src/tools/web_tools.py) and the    *)
(* tool dispatcher (src/server.py).                                        *)
(*                                                                         *)
(* Numbers are exact rationals <<n, d>> (d > 0, lowest terms): the model   *)
(* abstracts from the rounding of IEEE-754 doubles.  Strings that the code *)
(* inspects character by character are sequences of one-character strings. *)
(* Messages are sequences of tokens; an interpolated name is one token, an *)
(* interpolated character sequence is the token "<its variable>".          *)
(***************************************************************************)
EXTENDS Integers, Sequences, FiniteSets, TLC

----------------------------------------------------------------------------
(* Bounds of the model *)

\* largest integer among the numeric arguments offered to the calculator
MaxNum == 5
\* number of concurrently dispatched fetch_webpage/download_file calls
NumWebCalls == 7
\* number of chunks of the longest content offered to write_file
MaxChunks == 2
\* number of file handler calls in one behaviour
MaxCalls == 2
\* number of inodes of the file system
NumInodes == 7
\* number of arguments of the largest getPrompt argument mapping
MaxArgs == 2
\* number of segments of the longest json_path
MaxPath == 3
\* number of rows of the CSV files analysed
MaxRows == 2

----------------------------------------------------------------------------
(* Exact rational arithmetic: the values of Python floats *)

\* the fraction n/d in lowest terms with a positive denominator
Norm(n, d) ==
    LET Abs(i) == IF i < 0 THEN -i ELSE i
        RECURSIVE Gcd(_, _)
        Gcd(a, b) == IF b = 0 THEN a ELSE Gcd(b, a % b)
        g == Gcd(Abs(n), Abs(d))
        s == IF d < 0 THEN -1 ELSE 1
    IN  <<(s * n) \div g, (s * d) \div g>>

Rat(i) == <<i, 1>>
RAdd(x, y) == Norm(x[1] * y[2] + y[1] * x[2], x[2] * y[2])
RSub(x, y) == Norm(x[1] * y[2] - y[1] * x[2], x[2] * y[2])
RMul(x, y) == Norm(x[1] * y[1], x[2] * y[2])
\* defined for y # 0 only
RDiv(x, y) == Norm(x[1] * y[2], x[2] * y[1])
RLt(x, y) == x[1] * y[2] < y[1] * x[2]
RLe(x, y) == x[1] * y[2] <= y[1] * x[2]
RZero == Rat(0)

\* math.sqrt at the precision of the model: the largest multiple r of
\* 1/SqrtPrec with r*r <= x (x >= 0)
SqrtPrec == 10
RSqrt(x) ==
    LET ISqrt(n) == CHOOSE r \in 0..(n + 1) : r * r <= n /\ (r + 1) * (r + 1) > n
    IN  Norm(ISqrt((x[1] * SqrtPrec * SqrtPrec) \div x[2]), SqrtPrec)

----------------------------------------------------------------------------
(* JSON argument values and Python's float() *)

NumV(r) == [k |-> "num", n |-> r, s |-> <<>>]
StrV(s) == [k |-> "str", n |-> RZero, s |-> s]
NullV == [k |-> "null", n |-> RZero, s |-> <<>>]

\* args.get(key, default)
Get(args, key, default) == IF key \in DOMAIN args THEN args[key] ELSE default

\* the value of a string of decimal digits
RECURSIVE DecVal(_)
DecVal(s) ==
    LET DigitVal(c) ==
            CASE c = "0" -> 0 [] c = "1" -> 1 [] c = "2" -> 2 [] c = "3" -> 3
              [] c = "4" -> 4 [] c = "5" -> 5 [] c = "6" -> 6 [] c = "7" -> 7
              [] c = "8" -> 8 [] c = "9" -> 9
    IN  IF s = <<>> THEN 0
        ELSE 10 * DecVal(SubSeq(s, 1, Len(s) - 1)) + DigitVal(s[Len(s)])

IsDigits(s) ==
    /\ s # <<>>
    /\ \A i \in 1..Len(s) : s[i] \in {"0", "1", "2", "3", "4", "5", "6", "7", "8", "9"}

\* float(v): a number converts to itself, a string is parsed as an
\* optionally signed decimal integer literal and raises ValueError when it
\* is not one, None raises TypeError.
Float(v) ==
    CASE v.k = "num" -> [ok |-> TRUE, n |-> v.n, exc |-> "none"]
      [] v.k = "str" ->
            IF IsDigits(v.s)
            THEN [ok |-> TRUE, n |-> Rat(DecVal(v.s)), exc |-> "none"]
            ELSE IF Len(v.s) > 1 /\ v.s[1] = "-" /\ IsDigits(Tail(v.s))
            THEN [ok |-> TRUE, n |-> Rat(0 - DecVal(Tail(v.s))), exc |-> "none"]
            ELSE [ok |-> FALSE, n |-> RZero, exc |-> "ValueError"]
      [] OTHER -> [ok |-> FALSE, n |-> RZero, exc |-> "TypeError"]

----------------------------------------------------------------------------
(* Handler outcomes: a returned result dictionary or a raised exception *)

NoValue == [kind |-> "none", n |-> RZero, x |-> RZero, y |-> RZero]
Number(r) == [kind |-> "num", n |-> r, x |-> RZero, y |-> RZero]
\* the value of a transcendental function, left uninterpreted
Symbolic(f, x, y) == [kind |-> f, n |-> RZero, x |-> x, y |-> y]

Return(tool, value) ==
    [ok |-> TRUE, tool |-> tool, result |-> value, exc |-> "none", msg |-> <<>>]
Raise(tool, exc, msg) ==
    [ok |-> FALSE, tool |-> tool, result |-> NoValue, exc |-> exc, msg |-> msg]
NoOutcome ==
    [ok |-> FALSE, tool |-> "none", result |-> NoValue, exc |-> "none", msg |-> <<>>]

\* the "except ValueError / except Exception" tail of the calculator
\* handlers: a ValueError is re-raised as ValueError("Invalid input: ..."),
\* anything else as Exception("<prefix> error: ...")
CalcWrap(tool, prefix, exc, msg) ==
    IF exc = "ValueError"
    THEN Raise(tool, "ValueError", <<"Invalid input: ">> \o msg)
    ELSE Raise(tool, "Exception", <<prefix>> \o msg)

FloatMsg(exc) ==
    IF exc = "ValueError" THEN <<"could not convert string to float">>
    ELSE <<"float() argument must be a string or a real number">>

----------------------------------------------------------------------------
(* src/tools/calc_tools.py: calculate_basic *)

BasicOps == {"add", "subtract", "multiply", "divide"}

BasicResult_NoZeroCheck(operation, a, b) ==
    CASE operation = "add" -> Return(operation, Number(RAdd(a, b)))
      [] operation = "subtract" -> Return(operation, Number(RSub(a, b)))
      [] operation = "multiply" -> Return(operation, Number(RMul(a, b)))
      [] operation = "divide" ->
            IF b = RZero THEN Return(operation, Number(RZero))
            ELSE Return(operation, Number(RDiv(a, b)))
      [] OTHER -> Raise(operation, "ValueError", <<"Unknown operation: ", operation>>)

BasicResult_MulAdds(operation, a, b) ==
    CASE operation = "add" -> Return(operation, Number(RAdd(a, b)))
      [] operation = "subtract" -> Return(operation, Number(RSub(a, b)))
      [] operation = "multiply" -> Return(operation, Number(RAdd(a, b)))
      [] operation = "divide" ->
            IF b = RZero
            THEN Raise(operation, "ValueError", <<"Cannot divide by zero">>)
            ELSE Return(operation, Number(RDiv(a, b)))
      [] OTHER -> Raise(operation, "ValueError", <<"Unknown operation: ", operation>>)

\* the if/elif chain over the operation, applied to the converted a and b
BasicResult(operation, a, b) ==
    CASE operation = "add" -> Return(operation, Number(RAdd(a, b)))
      [] operation = "subtract" -> Return(operation, Number(RSub(a, b)))
      [] operation = "multiply" -> Return(operation, Number(RMul(a, b)))
      [] operation = "divide" ->
            IF b = RZero
            THEN Raise(operation, "ValueError", <<"Cannot divide by zero">>)
            ELSE Return(operation, Number(RDiv(a, b)))
      [] OTHER -> Raise(operation, "ValueError", <<"Unknown operation: ", operation>>)

calculate_basic(operation, args) ==
    LET fa == Float(Get(args, "a", NumV(RZero)))
        fb == Float(Get(args, "b", NumV(RZero)))
    IN  IF ~fa.ok THEN CalcWrap(operation, "Calculation error: ", fa.exc, FloatMsg(fa.exc))
        ELSE IF ~fb.ok THEN CalcWrap(operation, "Calculation error: ", fb.exc, FloatMsg(fb.exc))
        ELSE LET r == BasicResult(operation, fa.n, fb.n)
             IN  IF r.ok THEN r
                 ELSE CalcWrap(operation, "Calculation error: ", r.exc, r.msg)

----------------------------------------------------------------------------
(* src/tools/calc_tools.py: calculate_advanced *)

AdvancedOps == {"power", "sqrt", "log", "sin", "cos", "tan"}

\* the if/elif chain over the operation, applied to the converted x
AdvancedResult(operation, x, args) ==
    CASE operation = "power" ->
            LET fy == Float(Get(args, "y", NumV(Rat(2))))
            IN  IF ~fy.ok THEN Raise(operation, fy.exc, FloatMsg(fy.exc))
                ELSE IF x = RZero /\ RLt(fy.n, RZero)
                THEN Raise(operation, "ZeroDivisionError",
                           <<"0.0 cannot be raised to a negative power">>)
                ELSE Return(operation, Symbolic("power", x, fy.n))
      [] operation = "sqrt" ->
            IF RLt(x, RZero)
            THEN Raise(operation, "ValueError",
                       <<"Cannot take square root of negative number">>)
            ELSE Return(operation, Number(RSqrt(x)))
      [] operation = "log" ->
            IF RLe(x, RZero)
            THEN Raise(operation, "ValueError",
                       <<"Cannot take logarithm of non-positive number">>)
            \* math.log(x, base) for x > 0; base is passed on unconverted; the
            \* default base math.e is any number above 1: 2.7 stands for it
            ELSE LET base == Get(args, "base", NumV(<<27, 10>>))
                 IN  IF base.k # "num"
                     THEN Raise("log", "TypeError", <<"must be real number">>)
                     ELSE IF RLe(base.n, RZero)
                     THEN Raise("log", "ValueError", <<"math domain error">>)
                     ELSE IF base.n = Rat(1)
                     THEN Raise("log", "ZeroDivisionError", <<"float division by zero">>)
                     ELSE Return("log", Symbolic("log", x, base.n))
      [] operation \in {"sin", "cos", "tan"} ->
            Return(operation, Symbolic(operation, x, RZero))
      [] OTHER -> Raise(operation, "ValueError", <<"Unknown operation: ", operation>>)

calculate_advanced(operation, args) ==
    LET fx == Float(Get(args, "x", NumV(RZero)))
    IN  IF ~fx.ok THEN CalcWrap(operation, "Calculation error: ", fx.exc, FloatMsg(fx.exc))
        ELSE LET r == AdvancedResult(operation, fx.n, args)
             IN  IF r.ok THEN r
                 ELSE CalcWrap(operation, "Calculation error: ", r.exc, r.msg)

----------------------------------------------------------------------------
(* src/tools/calc_tools.py: CONVERSION_FACTORS and convert_units *)

\* the unit names of the table, as the characters str.lower and "in" see
U ==
    [mm |-> <<"m", "m">>,
     cm |-> <<"c", "m">>,
     m |-> <<"m">>,
     km |-> <<"k", "m">>,
     in |-> <<"i", "n">>,
     ft |-> <<"f", "t">>,
     yd |-> <<"y", "d">>,
     mi |-> <<"m", "i">>,
     g |-> <<"g">>,
     kg |-> <<"k", "g">>,
     lb |-> <<"l", "b">>,
     oz |-> <<"o", "z">>,
     celsius |-> <<"c", "e", "l", "s", "i", "u", "s">>,
     fahrenheit |-> <<"f", "a", "h", "r", "e", "n", "h", "e", "i", "t">>,
     kelvin |-> <<"k", "e", "l", "v", "i", "n">>]

Units == {U[u] : u \in DOMAIN U}

\* f"{from_unit}_to_{to_unit}"
ConversionKey(from_unit, to_unit) == from_unit \o <<"_", "t", "o", "_">> \o to_unit

Scalar(r) == [callable |-> FALSE, factor |-> r, fn |-> "none"]
Lambda(f) == [callable |-> TRUE, factor |-> RZero, fn |-> f]

ScalarKeys ==
    {ConversionKey(U.mm, U.cm), ConversionKey(U.cm, U.m), ConversionKey(U.m, U.km),
     ConversionKey(U.in, U.ft), ConversionKey(U.ft, U.yd), ConversionKey(U.yd, U.mi),
     ConversionKey(U.g, U.kg), ConversionKey(U.kg, U.lb), ConversionKey(U.lb, U.oz)}
LambdaKeys ==
    {ConversionKey(U.celsius, U.fahrenheit), ConversionKey(U.fahrenheit, U.celsius),
     ConversionKey(U.celsius, U.kelvin), ConversionKey(U.kelvin, U.celsius)}

CONVERSION_FACTORS ==
    [key \in ScalarKeys \cup LambdaKeys |->
        CASE key = ConversionKey(U.mm, U.cm) -> Scalar(<<1, 10>>)
          [] key = ConversionKey(U.cm, U.m) -> Scalar(<<1, 100>>)
          [] key = ConversionKey(U.m, U.km) -> Scalar(<<1, 1000>>)
          [] key = ConversionKey(U.in, U.ft) -> Scalar(<<1, 12>>)
          [] key = ConversionKey(U.ft, U.yd) -> Scalar(<<1, 3>>)
          [] key = ConversionKey(U.yd, U.mi) -> Scalar(<<1, 1760>>)
          [] key = ConversionKey(U.g, U.kg) -> Scalar(<<1, 1000>>)
          [] key = ConversionKey(U.kg, U.lb) -> Scalar(<<110231, 50000>>)
          [] key = ConversionKey(U.lb, U.oz) -> Scalar(<<16, 1>>)
          [] key = ConversionKey(U.celsius, U.fahrenheit) -> Lambda("c_to_f")
          [] key = ConversionKey(U.fahrenheit, U.celsius) -> Lambda("f_to_c")
          [] key = ConversionKey(U.celsius, U.kelvin) -> Lambda("c_to_k")
          [] key = ConversionKey(U.kelvin, U.celsius) -> Lambda("k_to_c")]

ApplyLambda_NoParentheses(fn, v) ==
    CASE fn = "c_to_f" -> RAdd(RDiv(RMul(v, Rat(9)), Rat(5)), Rat(32))
      [] fn = "f_to_c" -> RSub(v, RDiv(RMul(Rat(32), Rat(5)), Rat(9)))
      [] fn = "c_to_k" -> RAdd(v, <<5463, 20>>)
      [] fn = "k_to_c" -> RSub(v, <<5463, 20>>)

\* the four lambdas of the table
ApplyLambda(fn, v) ==
    CASE fn = "c_to_f" -> RAdd(RDiv(RMul(v, Rat(9)), Rat(5)), Rat(32))
      [] fn = "f_to_c" -> RDiv(RMul(RSub(v, Rat(32)), Rat(5)), Rat(9))
      [] fn = "c_to_k" -> RAdd(v, <<5463, 20>>)
      [] fn = "k_to_c" -> RSub(v, <<5463, 20>>)

\* str.lower() on the letters the model offers
Lower(s) ==
    LET LowerChar(c) ==
            CASE c = "C" -> "c" [] c = "M" -> "m" [] c = "K" -> "k" [] c = "G" -> "g"
              [] OTHER -> c
    IN  [i \in 1..Len(s) |-> LowerChar(s[i])]

\* needle in haystack (substring test on character sequences)
Contains(haystack, needle) ==
    \E i \in 0..(Len(haystack) - Len(needle)) :
        SubSeq(haystack, i + 1, i + Len(needle)) = needle

ConvertResult_ReverseMultiplies(value, from_unit, to_unit) ==
    LET conversion_key == ConversionKey(from_unit, to_unit)
        reverse_key == ConversionKey(to_unit, from_unit)
    IN  IF conversion_key \in DOMAIN CONVERSION_FACTORS
        THEN LET factor == CONVERSION_FACTORS[conversion_key]
             IN  IF factor.callable
                 THEN Return("convert_units", Number(ApplyLambda(factor.fn, value)))
                 ELSE Return("convert_units", Number(RMul(value, factor.factor)))
        ELSE IF reverse_key \in DOMAIN CONVERSION_FACTORS
        THEN Return("convert_units",
                    Number(RMul(value, CONVERSION_FACTORS[reverse_key].factor)))
        ELSE Raise("convert_units", "ValueError",
                   <<"Conversion from ", "<from_unit>", " to ", "<to_unit>", " not supported">>)

\* the forward lookup, the reverse lookup and the unsupported case
ConvertResult(value, from_unit, to_unit) ==
    LET conversion_key == ConversionKey(from_unit, to_unit)
        reverse_key == ConversionKey(to_unit, from_unit)
    IN  IF conversion_key \in DOMAIN CONVERSION_FACTORS
        THEN LET factor == CONVERSION_FACTORS[conversion_key]
             IN  IF factor.callable
                 THEN Return("convert_units", Number(ApplyLambda(factor.fn, value)))
                 ELSE Return("convert_units", Number(RMul(value, factor.factor)))
        ELSE IF reverse_key \in DOMAIN CONVERSION_FACTORS
        THEN LET factor == CONVERSION_FACTORS[reverse_key]
             IN  IF factor.callable
                 THEN IF Contains(reverse_key, U.celsius) /\ Contains(reverse_key, U.fahrenheit)
                      THEN Return("convert_units",
                                  Number(RDiv(RMul(RSub(value, Rat(32)), Rat(5)), Rat(9))))
                      ELSE Raise("convert_units", "ValueError",
                                 <<"Cannot reverse convert ", "<from_unit>", " to ", "<to_unit>">>)
                 ELSE Return("convert_units", Number(RDiv(value, factor.factor)))
        ELSE Raise("convert_units", "ValueError",
                   <<"Conversion from ", "<from_unit>", " to ", "<to_unit>", " not supported">>)

convert_units(args) ==
    LET fv == Float(Get(args, "value", NumV(RZero)))
        fu == Get(args, "from_unit", StrV(<<>>))
        tu == Get(args, "to_unit", StrV(<<>>))
    IN  IF ~fv.ok THEN CalcWrap("convert_units", "Conversion error: ", fv.exc, FloatMsg(fv.exc))
        ELSE IF fu.k # "str" \/ tu.k # "str"
        THEN Raise("convert_units", "Exception",
                   <<"Conversion error: ", "object has no attribute 'lower'">>)
        ELSE LET r == ConvertResult(fv.n, Lower(fu.s), Lower(tu.s))
             IN  IF r.ok THEN r
                 ELSE CalcWrap("convert_units", "Conversion error: ", r.exc, r.msg)

----------------------------------------------------------------------------
(* Paths: a path is a sequence of components, a component a sequence of   *)
(* characters; str(path) is the character sequence "/c1/c2/..."           *)

\* the names of the directory entries of the modelled file system
N ==
    [etc |-> <<"e", "t", "c">>,
     usr |-> <<"u", "s", "r">>,
     bin |-> <<"b", "i", "n">>,
     sbin |-> <<"s", "b", "i", "n">>,
     var |-> <<"v", "a", "r">>,
     root |-> <<"r", "o", "o", "t">>,
     home |-> <<"h", "o", "m", "e">>,
     srv |-> <<"s", "r", "v">>,
     d |-> <<"d">>,
     new |-> <<"n", "e", "w">>,
     lnk |-> <<"l", "n", "k">>,
     a_txt |-> <<"a", ".", "t", "x", "t">>,
     b_txt |-> <<"b", ".", "t", "x", "t">>,
     a_bin |-> <<"a", ".", "b", "i", "n">>,
     hidden_txt |-> <<".", "x", ".", "t", "x", "t">>,
     variable |-> <<"v", "a", "r", "i", "a", "b", "l", "e">>,
     a_dots_b_txt |-> <<"a", ".", ".", "b", ".", "t", "x", "t">>,
     downloaded_file |-> <<"d", "o", "w", "n", "l", "o", "a", "d", "e", "d", "_", "f",
                           "i", "l", "e">>]

Dot == <<".">>
DotDot == <<".", ".">>

\* a file_path argument: absolute or relative, and its components; the
\* empty string is the relative path without components
PathArg(abs, parts) == [abs |-> abs, parts |-> parts]
EmptyPath == PathArg(FALSE, <<>>)

\* os.getcwd()
Cwd == <<N.srv>>

\* the symbolic links of the file system: /srv/lnk -> /etc
SymLinks == [link \in {<<N.srv, N.lnk>>} |-> <<N.etc>>]

Parent(path) == SubSeq(path, 1, Len(path) - 1)

\* Path.resolve(): "." is dropped, ".." steps to the parent, a symbolic
\* link is replaced by its target
RECURSIVE ResolveFrom(_, _)
ResolveFrom(base, parts) ==
    IF parts = <<>> THEN base
    ELSE LET c == Head(parts)
             step == IF c = Dot THEN base
                     ELSE IF c = DotDot
                     THEN (IF base = <<>> THEN base ELSE Parent(base))
                     ELSE IF Append(base, c) \in DOMAIN SymLinks
                     THEN SymLinks[Append(base, c)]
                     ELSE Append(base, c)
         IN  ResolveFrom(step, Tail(parts))

\* Path(file_path).resolve()
Resolve(file_path) ==
    ResolveFrom(IF file_path.abs THEN <<>> ELSE Cwd, file_path.parts)

\* str(path)
RECURSIVE PathStr(_)
PathStr(path) ==
    IF path = <<>> THEN <<"/">>
    ELSE IF Len(path) = 1 THEN <<"/">> \o path[1]
    ELSE PathStr(Parent(path)) \o <<"/">> \o path[Len(path)]

StartsWith(str, prefix) ==
    Len(str) >= Len(prefix) /\ SubSeq(str, 1, Len(prefix)) = prefix

RESTRICTED_PATHS ==
    {<<"/">> \o N.etc, <<"/">> \o N.usr, <<"/">> \o N.bin, <<"/">> \o N.sbin,
     <<"/">> \o N.var, <<"/">> \o N.root, <<"/">> \o N.home}

\* the restricted prefix as it appears in the message
RestrictedText(restricted) ==
    CASE restricted = <<"/">> \o N.etc -> "/etc"
      [] restricted = <<"/">> \o N.usr -> "/usr"
      [] restricted = <<"/">> \o N.bin -> "/bin"
      [] restricted = <<"/">> \o N.sbin -> "/sbin"
      [] restricted = <<"/">> \o N.var -> "/var"
      [] restricted = <<"/">> \o N.root -> "/root"
      [] restricted = <<"/">> \o N.home -> "/home"

ALLOWED_EXTENSIONS ==
    {<<".", "t", "x", "t">>, <<".", "m", "d">>, <<".", "j", "s", "o", "n">>,
     <<".", "c", "s", "v">>, <<".", "l", "o", "g">>, <<".", "p", "y">>,
     <<".", "j", "s">>, <<".", "h", "t", "m", "l">>, <<".", "c", "s", "s">>}

\* the result of _validate_path: the resolved path or the ValueError raised
Valid(path) == [ok |-> TRUE, path |-> path, msg |-> <<>>]
Invalid(msg) == [ok |-> FALSE, path |-> <<>>, msg |-> <<"Invalid path: ">> \o msg]

validate_path_Unresolved(file_path) ==
    LET path == (IF file_path.abs THEN <<>> ELSE Cwd) \o file_path.parts
        hits == {r \in RESTRICTED_PATHS : StartsWith(PathStr(path), r)}
    IN  IF hits # {}
        THEN Invalid(<<"Access to ", RestrictedText(CHOOSE r \in hits : TRUE),
                       " is restricted">>)
        ELSE Valid(Resolve(file_path))

validate_path(file_path) ==
    LET path == Resolve(file_path)
        hits == {r \in RESTRICTED_PATHS : StartsWith(PathStr(path), r)}
    IN  IF hits # {}
        THEN Invalid(<<"Access to ", RestrictedText(CHOOSE r \in hits : TRUE),
                       " is restricted">>)
        ELSE IF Contains(PathStr(path), <<".", ".">>)
        THEN Invalid(<<"Path traversal not allowed">>)
        ELSE Valid(path)

\* PurePath.suffix of the last component
Suffix(path) ==
    IF path = <<>> THEN <<>>
    ELSE LET name == path[Len(path)]
             dots == {i \in 1..Len(name) : name[i] = "."}
         IN  IF dots = {} THEN <<>>
             ELSE LET last == CHOOSE i \in dots : \A j \in dots : j <= i
                  IN  IF 1 < last /\ last < Len(name)
                      THEN SubSeq(name, last, Len(name)) ELSE <<>>

\* PurePath.with_suffix(suffix)
WithSuffix(path, suffix) ==
    LET name == path[Len(path)]
        stem == SubSeq(name, 1, Len(name) - Len(Suffix(path)))
    IN  Append(Parent(path), stem \o suffix)

check_file_extension(path) == Lower(Suffix(path)) \in ALLOWED_EXTENSIONS

----------------------------------------------------------------------------
(* State *)

VARIABLES
    calcCall,    \* the calculator call made last: [tool, args]
    calcOut,     \* its outcome
    chainFrom,   \* the call whose result that call took as its argument a
    request,     \* the callTool request dispatched last: [name, args]
    handlerOut,  \* the outcome of the handler the dispatcher invoked for it
    ran,         \* the handler function the dispatcher invoked, or "none"
    replies,     \* the envelopes returned for the request
    escaped,     \* whether an exception left handle_call_tool
    tools,       \* self.tools: the registered names in insertion order
    toolList,     \* the names of the ListToolsResult returned last
    resource,    \* the readResource request handled last and its outcome
    prompt,      \* the getPrompt request handled last and its outcome
    json,        \* the process_json call made last and its outcome
    report,      \* the generate_report call made last and its outcome
    names,       \* the directory tree: path -> [kind, ino]
    data,        \* the content of each inode, a sequence of chunks
    fpc,         \* where each file handler call stands
    fcall,       \* its arguments
    flocal,      \* its local variables and what it has read so far
    fout,        \* its outcome
    ncalls,      \* the number of file handler calls started
    written,     \* history: path and content of the last write_file call that
                 \* returned, until another write_file call for that path starts
    semValue,    \* REQUEST_SEMAPHORE._value
    semWaiters,  \* REQUEST_SEMAPHORE._waiters: the futures, [proc, done]
    wpc,         \* where each fetch_webpage/download_file call stands
    download,    \* the download_file call followed chunk by chunk
    disk         \* the files of the working directory: name -> [exists, size]

calcVars == <<calcCall, calcOut, chainFrom>>
dispVars == <<request, handlerOut, ran, replies, escaped, tools, toolList>>
reqVars == <<resource, prompt, json, report>>
fileVars == <<names, data, fpc, fcall, flocal, fout, ncalls, written>>
webVars == <<semValue, semWaiters, wpc, download, disk>>
vars == <<calcVars, dispVars, reqVars, fileVars, webVars>>

\* the empty argument map {}
EmptyArgs == [key \in {} |-> NullV]
NoCall == [tool |-> "none", args |-> EmptyArgs]

----------------------------------------------------------------------------
(* Arguments offered to the calculator *)


\* the arguments dictionaries the handlers are called with: for the
\* calculator called directly (basic, chained, advanced, convert) and for a
\* tools/call request by the kind of its tool name (request)
Arguments ==
    LET \* numbers, a numeric string, a non-numeric string and null
        ArgVals ==
            {NumV(r) : r \in {Rat(i) : i \in (0 - 1)..MaxNum} \cup {<<1, 2>>}}
              \cup {StrV(<<"5">>), StrV(<<"x">>), NullV}
        \* every argument map over the given keys, each key present or absent
        ArgMaps(keys, vals) == UNION {[ks -> vals] : ks \in SUBSET keys}
        ExtraVals == {NumV(Rat(0 - 1)), NumV(Rat(1)), NumV(Rat(2)), StrV(<<"x">>)}
        UnitVals == {StrV(u) : u \in Units}
                      \cup {StrV(<<"C", "M">>), StrV(<<>>), NumV(Rat(1))}
    IN  [basic |-> ArgMaps({"a", "b"}, ArgVals),
         chained |-> {NumV(Rat(2))},
         advanced |->
             [operation \in AdvancedOps |->
                 {[x |-> v] : v \in ArgVals} \cup {EmptyArgs}
                   \cup (IF operation = "power"
                         THEN {[x |-> v, y |-> e] : v \in ArgVals, e \in ExtraVals}
                         ELSE IF operation = "log"
                         THEN {[x |-> v, base |-> e] : v \in ArgVals, e \in ExtraVals}
                         ELSE {})],
         convert |->
             {[value |-> v, from_unit |-> f, to_unit |-> t] :
                 v \in {NumV(Rat(0 - 1)), NumV(<<1, 2>>), NumV(Rat(MaxNum))},
                 f \in UnitVals, t \in UnitVals}
               \cup {[value |-> v, from_unit |-> StrV(U.cm), to_unit |-> StrV(U.m)] :
                         v \in {StrV(<<"5">>), StrV(<<"x">>), NullV}}
               \cup {[from_unit |-> StrV(U.cm), to_unit |-> StrV(U.m)],
                     [value |-> NumV(Rat(1))]},
         request |->
             [basic |-> ArgMaps({"a", "b"},
                                {NumV(Rat(0)), NumV(Rat(2)), StrV(<<"x">>), NullV}),
              advanced |-> ArgMaps({"x"}, {NumV(Rat(0 - 1)), NumV(Rat(0)), NumV(Rat(2)),
                                           StrV(<<"x">>), NullV}),
              convert |-> {[value |-> NumV(Rat(2)), from_unit |-> StrV(f),
                            to_unit |-> StrV(t)] : f \in {U.cm, U.m}, t \in {U.m, U.mm}},
              other |-> {EmptyArgs, [file_path |-> StrV(<<"x">>)]}]]


----------------------------------------------------------------------------
(* The calculator handlers as operations *)

\* calculate_basic(operation, args) called directly
CalcBasic ==
    \E operation \in BasicOps, args \in Arguments.basic :
        /\ calcCall' = [tool |-> operation, args |-> args]
        /\ calcOut' = calculate_basic(operation, args)
        /\ chainFrom' = NoCall
        /\ UNCHANGED <<dispVars, reqVars, fileVars, webVars>>

\* a second call whose argument a is the result of the call before it
\* (tests/test_tools.py, test_calculation_chain)
CalcChained ==
    \E operation \in BasicOps, b \in Arguments.chained :
        /\ calcCall.tool \in BasicOps
        /\ chainFrom = NoCall
        /\ calcOut.ok
        /\ LET args == [a |-> NumV(calcOut.result.n), b |-> b]
           IN  /\ calcCall' = [tool |-> operation, args |-> args]
               /\ calcOut' = calculate_basic(operation, args)
        /\ chainFrom' = calcCall
        /\ UNCHANGED <<dispVars, reqVars, fileVars, webVars>>

CalcAdvanced ==
    \E operation \in AdvancedOps :
        \E args \in Arguments.advanced[operation] :
            /\ calcCall' = [tool |-> operation, args |-> args]
            /\ calcOut' = calculate_advanced(operation, args)
            /\ chainFrom' = NoCall
            /\ UNCHANGED <<dispVars, reqVars, fileVars, webVars>>

ConvertUnits ==
    \E args \in Arguments.convert :
        /\ calcCall' = [tool |-> "convert_units", args |-> args]
        /\ calcOut' = convert_units(args)
        /\ chainFrom' = NoCall
        /\ UNCHANGED <<dispVars, reqVars, fileVars, webVars>>

\* a second conversion that takes the temperature the one before it gave
\* back to the unit it came from
ConvertBack ==
    /\ calcCall.tool = "convert_units"
    /\ chainFrom = NoCall
    /\ calcOut.ok
    /\ ConversionKey(Lower(calcCall.args["from_unit"].s),
                     Lower(calcCall.args["to_unit"].s)) \in LambdaKeys
    /\ LET args == [value |-> NumV(calcOut.result.n),
                    from_unit |-> calcCall.args["to_unit"],
                    to_unit |-> calcCall.args["from_unit"]]
       IN  /\ calcCall' = [tool |-> "convert_units", args |-> args]
           /\ calcOut' = convert_units(args)
    /\ chainFrom' = calcCall
    /\ UNCHANGED <<dispVars, reqVars, fileVars, webVars>>

NextCalc == CalcBasic \/ CalcChained \/ CalcAdvanced \/ ConvertUnits \/ ConvertBack

----------------------------------------------------------------------------
(* src/server.py: the tool catalog and handle_call_tool *)

\* the names of get_calculator_tools, get_file_tools, get_web_tools and
\* get_data_tools, the keys of self.tools
RegisteredTools ==
    {"add", "subtract", "multiply", "divide", "power", "sqrt", "log", "sin", "cos",
     "tan", "convert_units", "read_file", "write_file", "list_directory",
     "fetch_webpage", "search_web", "download_file", "analyze_csv", "process_json",
     "generate_report"}

register_tools_CalculatorToolsOnly ==
    <<"add", "subtract", "multiply", "divide", "power", "sqrt", "log", "sin", "cos",
      "tan", "convert_units">>

\* MCPServer._register_tools(): self.tools[tool.name] = tool for the tools of
\* get_calculator_tools, get_file_tools, get_web_tools and get_data_tools in
\* this order; a name assigned again keeps its place in the dictionary
register_tools ==
    LET catalog ==
            <<"add", "subtract", "multiply", "divide", "power", "sqrt", "log", "sin",
              "cos", "tan", "convert_units">>
              \o <<"read_file", "write_file", "list_directory">>
              \o <<"fetch_webpage", "search_web", "download_file">>
              \o <<"analyze_csv", "process_json", "generate_report">>
        RECURSIVE Registered(_)
        Registered(n) ==
            IF n = 0 THEN <<>>
            ELSE IF \E i \in 1..(n - 1) : catalog[i] = catalog[n]
            THEN Registered(n - 1)
            ELSE Append(Registered(n - 1), catalog[n])
    IN  Registered(Len(catalog))

Route_WithFallback(tool_name) ==
    CASE tool_name \in {"add", "subtract", "multiply", "divide"} -> "calculate_basic"
      [] tool_name \in {"power", "sqrt", "log", "sin", "cos", "tan"} -> "calculate_advanced"
      [] tool_name = "convert_units" -> "convert_units"
      [] tool_name = "read_file" -> "read_file_content"
      [] tool_name = "write_file" -> "write_file_content"
      [] tool_name = "list_directory" -> "list_directory"
      [] tool_name = "fetch_webpage" -> "fetch_webpage"
      [] tool_name = "search_web" -> "search_web"
      [] tool_name = "download_file" -> "download_file"
      [] tool_name = "analyze_csv" -> "analyze_csv"
      [] tool_name = "process_json" -> "process_json"
      [] OTHER -> "generate_report"

\* the if/elif chain of handle_call_tool: the handler function a name is
\* routed to, "none" for the else branch
Route(tool_name) ==
    CASE tool_name \in {"add", "subtract", "multiply", "divide"} -> "calculate_basic"
      [] tool_name \in {"power", "sqrt", "log", "sin", "cos", "tan"} -> "calculate_advanced"
      [] tool_name = "convert_units" -> "convert_units"
      [] tool_name = "read_file" -> "read_file_content"
      [] tool_name = "write_file" -> "write_file_content"
      [] tool_name = "list_directory" -> "list_directory"
      [] tool_name = "fetch_webpage" -> "fetch_webpage"
      [] tool_name = "search_web" -> "search_web"
      [] tool_name = "download_file" -> "download_file"
      [] tool_name = "analyze_csv" -> "analyze_csv"
      [] tool_name = "process_json" -> "process_json"
      [] tool_name = "generate_report" -> "generate_report"
      [] OTHER -> "none"

\* the outcomes of "await <handler>(...)" for a routed name: a calculator
\* handler is computed; a file, web or data handler returns its result
\* dictionary or raises through its
\* "except Exception as e: raise Exception(f'<prefix>: {str(e)}')" tail
HandlerOutcomes(tool_name, arguments) ==
    LET handler == Route(tool_name)
        HandlerPrefix ==
            CASE handler = "read_file_content" -> "Failed to read file: "
              [] handler = "write_file_content" -> "Failed to write file: "
              [] handler = "list_directory" -> "Failed to list directory: "
              [] handler = "fetch_webpage" -> "Failed to fetch webpage: "
              [] handler = "search_web" -> "Search failed: "
              [] handler = "download_file" -> "Download failed: "
              [] handler = "analyze_csv" -> "CSV analysis failed: "
              [] handler = "process_json" -> "JSON processing failed: "
              [] handler = "generate_report" -> "Report generation failed: "
    IN  CASE handler = "calculate_basic" -> {calculate_basic(tool_name, arguments)}
          [] handler = "calculate_advanced" -> {calculate_advanced(tool_name, arguments)}
          [] handler = "convert_units" -> {convert_units(arguments)}
          [] OTHER -> {Return(handler, Symbolic(handler, RZero, RZero)),
                       Raise(handler, "Exception", <<HandlerPrefix, "<str(e)>">>)}

\* str(result) of a result dictionary: "{'key': value, ...}"
StrOfDict(outcome) == <<"{", outcome.tool, "}">>

Envelope(text) == [type |-> "text", text |-> text]

EnvelopeOf_NoMarker(outcome) ==
    IF outcome.ok THEN Envelope(StrOfDict(outcome))
    ELSE Envelope(outcome.msg)

\* the CallToolResult built on the try path and in the except clause
EnvelopeOf(outcome) ==
    IF outcome.ok THEN Envelope(StrOfDict(outcome))
    ELSE Envelope(<<"Error: ">> \o outcome.msg)

\* handle_call_tool(request)
CallTool ==
    \* the registered names, and names no tool is registered under
    \E tool_name \in RegisteredTools
                       \cup {"", "ADD", "add ", "delete_file", "calculate_basic"} :
        \E arguments \in
             \* the arguments a request carries for a name
             CASE tool_name \in BasicOps -> Arguments.request.basic
               [] tool_name \in AdvancedOps -> Arguments.request.advanced
               [] tool_name = "convert_units" -> Arguments.request.convert
               [] OTHER -> Arguments.request.other :
            /\ request' = [name |-> tool_name, args |-> arguments]
            /\ ran' = Route(tool_name)
            /\ IF Route(tool_name) = "none"
               THEN handlerOut' = Raise("none", "ValueError", <<"Unknown tool: ", tool_name>>)
               ELSE handlerOut' \in HandlerOutcomes(tool_name, arguments)
            \* "except Exception" catches every class a handler raises
            /\ IF \/ handlerOut'.ok
                  \/ handlerOut'.exc \in {"Exception", "ValueError", "TypeError",
                                          "KeyError", "ZeroDivisionError"}
               THEN replies' = <<EnvelopeOf(handlerOut')>> /\ escaped' = FALSE
               ELSE replies' = <<>> /\ escaped' = TRUE
            /\ UNCHANGED <<tools, toolList, calcVars, reqVars, fileVars, webVars>>

\* handle_list_tools(): list(self.tools.values())
ListTools ==
    /\ toolList' = tools
    /\ UNCHANGED <<request, handlerOut, ran, replies, escaped, tools>>
    /\ UNCHANGED <<calcVars, reqVars, fileVars, webVars>>

----------------------------------------------------------------------------
(* One client of the resource, prompt and data handlers: it makes a       *)
(* request when it has the answer to the one before                       *)

\* the client's record of each handler while it has no request out
Idle ==
    [resource |-> [uri |-> <<>>, ok |-> FALSE, exc |-> "none", text |-> <<>>],
     prompt |-> [name |-> "none", arguments |-> <<>>, ok |-> FALSE, description |-> <<>>],
     json |-> [operation |-> "none", json_path |-> <<>>, ok |-> FALSE, extracted |-> 0,
               exc |-> "none", msg |-> "none", seg |-> <<>>,
               root_type |-> "none", document |-> <<>>, value |-> <<>>],
     report |-> [report_type |-> "none",
                 \* the data argument: the keys it has, and their values
                 data |-> [keys |-> {}, total_rows |-> 0, missing_values |-> <<>>,
                           numeric_statistics |-> <<>>],
                 ok |-> FALSE, exc |-> "none",
                 high_missing |-> {}, variability |-> {}, affected_fields |-> {},
                 data_quality_score |-> RZero]]

\* no request is waiting for its answer
NoRequest ==
    /\ resource = Idle.resource
    /\ prompt = Idle.prompt
    /\ json = Idle.json
    /\ report = Idle.report

\* the client takes the answer
Answer ==
    /\ ~NoRequest
    /\ resource' = Idle.resource
    /\ prompt' = Idle.prompt
    /\ json' = Idle.json
    /\ report' = Idle.report
    /\ UNCHANGED <<calcVars, dispVars, fileVars, webVars>>

----------------------------------------------------------------------------
(* src/server.py: handle_read_resource over the resources registered from *)
(* src/resources/file_resources.py.  A uri is <<scheme prefix, rest>>.    *)

\* self.resources after _register_resources: one file of the data
\* directory and the two system resources
Resources ==
    {<<"file://", "data/sample.txt">>, <<"system://", "status">>, <<"system://", "logs">>}

\* handle_read_resource(request): exists says whether open(uri[7:]) finds
\* the file, which was there when the resources were registered
handle_read_resource(uri, exists) ==
    IF uri \notin Resources
    THEN [uri |-> uri, ok |-> FALSE, exc |-> "ValueError",
          text |-> <<"Resource not found: ">> \o uri]
    ELSE IF uri[1] = "file://"
    THEN IF exists
         THEN [uri |-> uri, ok |-> TRUE, exc |-> "none", text |-> <<"<content of ", uri[2], ">">>]
         ELSE [uri |-> uri, ok |-> FALSE, exc |-> "FileNotFoundError", text |-> <<uri[2]>>]
    ELSE [uri |-> uri, ok |-> FALSE, exc |-> "ValueError",
          text |-> <<"Unsupported resource type: ">> \o uri]

\* a client asks for a registered uri, for a file that is not registered
\* or for a uri of another scheme
ReadResource ==
    /\ NoRequest
    /\ \E uri \in Resources \cup {<<"file://", "data/other.txt">>,
                                   <<"http://", "example.com">>},
          exists \in BOOLEAN :
          resource' = handle_read_resource(uri, exists)
    /\ UNCHANGED <<calcVars, dispVars, prompt, json, report, fileVars, webVars>>

----------------------------------------------------------------------------
(* src/server.py: handle_get_prompt over the prompts registered from      *)
(* src/prompts/analysis_prompts.py.  A text is a sequence of tokens: "{", *)
(* "}", a name, or a stretch of other characters.                         *)

\* self.prompts after _register_prompts: name -> description
Prompts ==
    [analyze_data |->
        <<"Analyze data and provide insights on ", "{", "data_type", "}",
          " with focus on ", "{", "analysis_focus", "}">>,
     code_review |->
        <<"Review ", "{", "language", "}", " code for ", "{", "review_type", "}",
          " and provide suggestions">>,
     system_troubleshooting |->
        <<"Troubleshoot ", "{", "system_type", "}", " issues with ",
          "{", "error_symptoms", "}">>,
     documentation_generator |->
        <<"Generate ", "{", "doc_type", "}", " documentation for ", "{", "subject", "}">>,
     performance_analysis |->
        <<"Analyze performance metrics for ", "{", "system_component", "}",
          " and identify optimization opportunities">>]

\* str.replace(old, new): the occurrences of old, found from the left and
\* not overlapping, are replaced by new
RECURSIVE StrReplace(_, _, _)
StrReplace(str, old, new) ==
    IF Len(str) < Len(old) THEN str
    ELSE IF SubSeq(str, 1, Len(old)) = old
    THEN new \o StrReplace(SubSeq(str, Len(old) + 1, Len(str)), old, new)
    ELSE <<Head(str)>> \o StrReplace(Tail(str), old, new)

\* handle_get_prompt(request): arguments is the mapping in its iteration
\* order, a sequence of [key, value]; the values are strings
handle_get_prompt(prompt_name, arguments) ==
    LET RECURSIVE Substitute(_, _)
        Substitute(description, items) ==
            IF items = <<>> THEN description
            ELSE Substitute(StrReplace(description, <<"{", Head(items).key, "}">>,
                                       Head(items).value),
                            Tail(items))
    IN  IF prompt_name \notin DOMAIN Prompts
        THEN [name |-> prompt_name, arguments |-> arguments, ok |-> FALSE,
              description |-> <<"Prompt not found: ", prompt_name>>]
        ELSE [name |-> prompt_name, arguments |-> arguments, ok |-> TRUE,
              description |-> Substitute(Prompts[prompt_name], arguments)]

\* a client sends an argument mapping in some iteration order: up to
\* MaxArgs keys, a value being a word or the text of a placeholder
GetPrompt ==
    /\ NoRequest
    /\ LET keys == {"data_type", "analysis_focus", "context"}
           values == {<<"CSV">>, <<"{", "analysis_focus", "}">>, <<"{", "data_type", "}">>}
           items == [key : keys, value : values]
           PromptArguments ==
               {a \in UNION {[1..n -> items] : n \in 0..MaxArgs} :
                   \A i, j \in 1..Len(a) : i # j => a[i].key # a[j].key}
       IN  \E prompt_name \in {"analyze_data", "performance_analysis", "summarize"},
              arguments \in PromptArguments :
              prompt' = handle_get_prompt(prompt_name, arguments)
    /\ UNCHANGED <<calcVars, dispVars, resource, json, report, fileVars, webVars>>

----------------------------------------------------------------------------
(* src/tools/data_tools.py: process_json.  A key, a path segment and a    *)
(* json_path are character sequences; a JSON value is a node of the       *)
(* parsed document.                                                       *)

\* the keys of the document
K ==
    [users |-> <<"u", "s", "e", "r", "s">>,
     metadata |-> <<"m", "e", "t", "a", "d", "a", "t", "a">>,
     total |-> <<"t", "o", "t", "a", "l">>,
     name |-> <<"n", "a", "m", "e">>,
     grid |-> <<"g", "r", "i", "d">>]

\* json.load(f) of the file:
\* {"users": [{"name": "John"}, {"name": "Jane"}],
\*  "metadata": {"total": 2}, "grid": [[1]]}; node 1 is the root
JsonData ==
    LET Obj(fields) == [kind |-> "dict", fields |-> fields, items |-> <<>>, value |-> 0]
        Arr(items) == [kind |-> "list", fields |-> <<>>, items |-> items, value |-> 0]
        Val(kind, value) == [kind |-> kind, fields |-> <<>>, items |-> <<>>, value |-> value]
    IN  <<Obj((K.users :> 2) @@ (K.metadata :> 5) @@ (K.grid :> 7)),
          Arr(<<3, 4>>),
          Obj(K.name :> 9),
          Obj(K.name :> 10),
          Obj(K.total :> 6),
          Val("int", 2),
          Arr(<<8>>),
          Arr(<<11>>),
          Val("str", 1),
          Val("str", 2),
          Val("int", 1)>>

Split_Whole(json_path) == <<json_path>>

\* json_path.split('.')
Split(json_path) ==
    LET RECURSIVE Parts(_)
        Parts(str) ==
            IF \A i \in 1..Len(str) : str[i] # "."
            THEN <<str>>
            ELSE LET dot == CHOOSE i \in 1..Len(str) :
                                str[i] = "." /\ \A j \in 1..(i - 1) : str[j] # "."
                 IN  <<SubSeq(str, 1, dot - 1)>> \o Parts(SubSeq(str, dot + 1, Len(str)))
    IN  Parts(json_path)

IntOf_Unsigned(current) ==
    IF IsDigits(current) THEN [ok |-> TRUE, n |-> DecVal(current)]
    ELSE [ok |-> FALSE, n |-> 0]

\* int(current) of a segment without white space and underscores: an
\* optional sign and decimal digits, ValueError otherwise
IntOf(current) ==
    IF IsDigits(current) THEN [ok |-> TRUE, n |-> DecVal(current)]
    ELSE IF Len(current) > 1 /\ current[1] = "-" /\ IsDigits(Tail(current))
    THEN [ok |-> TRUE, n |-> 0 - DecVal(Tail(current))]
    ELSE IF Len(current) > 1 /\ current[1] = "+" /\ IsDigits(Tail(current))
    THEN [ok |-> TRUE, n |-> DecVal(Tail(current))]
    ELSE [ok |-> FALSE, n |-> 0]

\* _extract_by_path(obj, path_parts): the node reached, or the exception
\* raised, the text of its message and the segment the message names
RECURSIVE extract_by_path(_, _)
extract_by_path(obj, path_parts) ==
    LET current == Head(path_parts)
        remaining == Tail(path_parts)
        raise(exc, msg) ==
            [ok |-> FALSE, node |-> 0, exc |-> exc, msg |-> msg, seg |-> current]
    IN  IF path_parts = <<>>
        THEN [ok |-> TRUE, node |-> obj, exc |-> "none", msg |-> "none", seg |-> <<>>]
        ELSE IF JsonData[obj].kind = "dict"
        THEN IF current \in DOMAIN JsonData[obj].fields
             THEN extract_by_path(JsonData[obj].fields[current], remaining)
             ELSE raise("KeyError", "Key '<current>' not found")
        ELSE IF JsonData[obj].kind = "list"
        THEN LET index == IntOf(current)
             IN  IF ~index.ok
                 THEN raise("ValueError", "Invalid array index: <current>")
                 ELSE IF 0 <= index.n /\ index.n < Len(JsonData[obj].items)
                 THEN LET below == extract_by_path(JsonData[obj].items[index.n + 1],
                                                   remaining)
                      IN  \* "except ValueError" also catches the ValueError of a
                          \* deeper call
                          IF ~below.ok /\ below.exc = "ValueError"
                          THEN raise("ValueError", "Invalid array index: <current>")
                          ELSE below
                 ELSE raise("IndexError", "Index <index> out of range")
        ELSE raise("TypeError", "Cannot access '<current>' on <type>")

\* process_json(args) on the file above: operation and json_path decide
\* what the result dictionary holds; on "extract" with a json_path it holds
\* extracted_data, and a failure of the extraction leaves the handler as
\* Exception("JSON processing failed: ...")
process_json(operation, json_path) ==
    LET extracted == extract_by_path(1, Split(json_path))
        call == [operation |-> operation, json_path |-> json_path, ok |-> TRUE,
                 extracted |-> 0, exc |-> "none", msg |-> "none", seg |-> <<>>,
                 root_type |-> IF operation = "analyze" THEN "dict" ELSE "none",
                 document |-> <<>>, value |-> <<>>]
    IN  IF operation = "extract" /\ json_path # <<>>
        THEN IF extracted.ok THEN [call EXCEPT !.extracted = extracted.node]
             ELSE [call EXCEPT !.ok = FALSE, !.exc = extracted.exc,
                               !.msg = extracted.msg, !.seg = extracted.seg]
        ELSE call

\* _analyze_structure(obj, path) of a str: the "value" of the dictionary it
\* returns
analyze_structure(obj) ==
    IF Len(obj) < 100 THEN obj ELSE SubSeq(obj, 1, 100) \o <<".", ".", ".">>

\* process_json(args) with operation "analyze" on a file that holds one JSON
\* string: the characters of the string are the last digits of their
\* positions
ProcessJsonString ==
    /\ NoRequest
    /\ \E n \in {0, 1, 99, 100, 101, 102} :
          LET document == [i \in 1..n |-> <<"0", "1", "2", "3", "4", "5", "6", "7",
                                            "8", "9">>[(i % 10) + 1]]
          IN  json' = [process_json("analyze", <<>>) EXCEPT
                          !.root_type = "str",
                          !.document = document,
                          !.value = analyze_structure(document)]
    /\ UNCHANGED <<calcVars, dispVars, resource, prompt, report, fileVars, webVars>>

\* the json_path arguments offered: up to MaxPath segments joined by "."
ProcessJson ==
    LET segments == {K.users, K.metadata, K.total, K.name, K.grid,
                     <<"0">>, <<"2">>, <<"-", "1">>, <<"x">>}
        RECURSIVE Join(_)
        Join(parts) ==
            IF Len(parts) = 1 THEN parts[1]
            ELSE parts[1] \o <<".">> \o Join(Tail(parts))
        JsonPaths ==
            {<<>>} \cup {Join(parts) :
                            parts \in UNION {[1..n -> segments] : n \in 1..MaxPath}}
    IN  /\ NoRequest
        /\ \E operation \in {"extract", "analyze"}, json_path \in JsonPaths :
              json' = process_json(operation, json_path)
        /\ UNCHANGED <<calcVars, dispVars, resource, prompt, report, fileVars, webVars>>

----------------------------------------------------------------------------
(* src/tools/data_tools.py: analyze_csv as far as generate_report reads   *)
(* its output, and generate_report.  NaN is the fraction <<0, 0>>: every  *)
(* comparison with it is false.  A CSV file is MaxRows cells for each     *)
(* column, a cell a number or missing.                                    *)

Columns == {"age", "salary"}

\* analyze_csv(args): total_rows, missing_values[col]["percentage"] and
\* numeric_statistics[col] (mean and std) of the result dictionary
analyze_csv(df) ==
    LET total_rows == MaxRows
        series(col) == SelectSeq(df[col], LAMBDA cell : ~cell.na)
        RECURSIVE Sum(_, _)
        Sum(cells, mean) ==
            IF cells = <<>> THEN RZero
            ELSE RAdd(RMul(RSub(Rat(Head(cells).v), mean), RSub(Rat(Head(cells).v), mean)),
                      Sum(Tail(cells), mean))
        RECURSIVE Total(_)
        Total(cells) ==
            IF cells = <<>> THEN 0 ELSE Head(cells).v + Total(Tail(cells))
        Mean(col) == Norm(Total(series(col)), Len(series(col)))
        \* Series.std(): ddof = 1, NaN for a single value
        Std(col) ==
            IF Len(series(col)) < 2 THEN <<0, 0>>
            ELSE RSqrt(RDiv(Sum(series(col), Mean(col)), Rat(Len(series(col)) - 1)))
    IN  [keys |-> {"total_rows", "missing_values", "numeric_statistics"},
         total_rows |-> total_rows,
         missing_values |->
            [col \in Columns |->
                RMul(Norm(total_rows - Len(series(col)), total_rows), Rat(100))],
         numeric_statistics |->
            [col \in {c \in Columns : Len(series(c)) > 0} |->
                [mean |-> Mean(col), std |-> Std(col)]]]

\* _calculate_quality_score(analysis): the score, or the ZeroDivisionError of
\* total_missing / len(data["missing_values"])
calculate_quality_score(analysis) ==
    LET \* round(x, 2) of x >= 0: the nearest multiple of 1/100, the even one
        \* of two that are equally near
        Round2(x) ==
            LET q == (x[1] * 100) \div x[2]
                r == (x[1] * 100) % x[2]
            IN  IF 2 * r > x[2] \/ (2 * r = x[2] /\ q % 2 = 1)
                THEN Norm(q + 1, 100) ELSE Norm(q, 100)
        RECURSIVE Sum(_)
        Sum(cols) ==
            IF cols = {} THEN RZero
            ELSE LET c == CHOOSE c \in cols : TRUE
                 IN  RAdd(analysis.missing_values[c], Sum(cols \ {c}))
        cols == DOMAIN analysis.missing_values
        score == RSub(Rat(100), RDiv(Sum(cols), Rat(Cardinality(cols))))
    IN  IF "missing_values" \notin analysis.keys THEN [ok |-> TRUE, score |-> Rat(100)]
        ELSE IF cols = {} THEN [ok |-> FALSE, score |-> RZero]
        ELSE [ok |-> TRUE, score |-> Round2(IF RLt(RZero, score) THEN score ELSE RZero)]

\* generate_report(args) with the default format: what the report_data of
\* the result holds, or the exception that ends the handler as
\* Exception("Report generation failed: ...")
generate_report(analysis, report_type) ==
    LET call == [Idle.report EXCEPT !.report_type = report_type, !.data = analysis]
        raise(exc) == [call EXCEPT !.exc = exc]
        missing == IF "missing_values" \in analysis.keys THEN analysis.missing_values ELSE <<>>
        stats == IF "numeric_statistics" \in analysis.keys
                 THEN analysis.numeric_statistics ELSE <<>>
        variable == {col \in DOMAIN stats : RLt(stats[col].mean, stats[col].std)}
        quality == calculate_quality_score(analysis)
    IN  IF analysis.keys = {} THEN raise("ValueError")
        ELSE IF report_type = "summary"
        THEN \* stats["std"] / stats["mean"] of a column with mean 0
             IF \E col \in variable : stats[col].mean = RZero
             THEN raise("ZeroDivisionError")
             ELSE [call EXCEPT
                     !.ok = TRUE,
                     !.high_missing = {k \in DOMAIN missing : RLt(Rat(20), missing[k])},
                     !.variability = variable,
                     !.affected_fields = {k \in DOMAIN missing : RLt(Rat(10), missing[k])}]
        ELSE IF report_type = "detailed"
        THEN IF quality.ok
             THEN [call EXCEPT !.ok = TRUE, !.data_quality_score = quality.score]
             ELSE raise("ZeroDivisionError")
        ELSE IF report_type = "insights" THEN [call EXCEPT !.ok = TRUE]
        ELSE raise("ValueError")

\* the data arguments offered: the outputs of analyze_csv, dictionaries
\* with a missing_values mapping of any columns, one without missing_values
\* and the empty one
GenerateReport ==
    /\ NoRequest
    /\ LET cells == {[na |-> TRUE, v |-> 0]}
                       \cup {[na |-> FALSE, v |-> n] : n \in {0 - 1, 1, 3}}
           Csvs == [Columns -> [1..MaxRows -> cells]]
           percentages == {Rat(0), Rat(15), Rat(25), Rat(250)}
           EmptyData == Idle.report.data
           ReportData ==
               {analyze_csv(df) : df \in Csvs}
                 \cup {[EmptyData EXCEPT !.keys = {"missing_values"}, !.missing_values = m] :
                           m \in UNION {[cols -> percentages] : cols \in SUBSET Columns}}
                 \cup {[EmptyData EXCEPT !.keys = {"total_rows"}, !.total_rows = 100],
                       EmptyData}
       IN  \E analysis \in ReportData,
              report_type \in {"summary", "detailed", "insights", "chart"} :
              report' = generate_report(analysis, report_type)
    /\ UNCHANGED <<calcVars, dispVars, resource, prompt, json, fileVars, webVars>>

NextRequests ==
    \/ ReadResource \/ GetPrompt \/ ProcessJson \/ ProcessJsonString \/ GenerateReport
    \/ Answer

----------------------------------------------------------------------------
(* The file system the file handlers act on *)

Chunk(w, i) == [w |-> w, i |-> i]
OldContent == <<Chunk("old", 1)>>
ContentA == [i \in 1..MaxChunks |-> Chunk("A", i)]
ContentB == <<Chunk("B", 1)>>
\* a content whose carriage return and line feed are two chunks
ContentCRLF == <<Chunk("CR", 1), Chunk("LF", 2)>>

\* what a file opened in text mode 'r' gives for the stored characters:
\* newline=None turns "\r\n" and a lone "\r" into "\n"
RECURSIVE UniversalNewlines(_)
UniversalNewlines(content) ==
    IF content = <<>> THEN <<>>
    ELSE IF Head(content).w # "CR"
    THEN <<Head(content)>> \o UniversalNewlines(Tail(content))
    ELSE IF Len(content) > 1 /\ content[2].w = "LF"
    THEN <<content[2]>> \o UniversalNewlines(SubSeq(content, 3, Len(content)))
    ELSE <<[Head(content) EXCEPT !.w = "LF"]>> \o UniversalNewlines(Tail(content))

\* the file_path and directory_path arguments offered to the handlers
PathInputs ==
    {PathArg(TRUE, <<N.srv, N.a_txt>>),
     PathArg(FALSE, <<N.a_txt>>),
     PathArg(FALSE, <<N.d, N.b_txt>>),
     PathArg(TRUE, <<N.etc, N.a_txt>>),
     PathArg(FALSE, <<DotDot, N.etc, N.new, N.a_txt>>),
     PathArg(TRUE, <<N.srv, N.lnk, N.a_txt>>),
     PathArg(TRUE, <<N.srv, N.a_bin>>),
     PathArg(FALSE, <<N.d, N.a_bin>>),
     PathArg(TRUE, <<N.srv>>),
     PathArg(TRUE, <<N.srv, N.lnk>>),
     PathArg(FALSE, <<Dot>>),
     PathArg(TRUE, <<N.variable, N.a_txt>>),
     PathArg(FALSE, <<N.a_dots_b_txt>>),
     EmptyPath}

TempPath_IsTarget(path) == path

\* path.with_suffix(f"{path.suffix}.tmp") and
\* path.with_suffix(f"{path.suffix}.backup")
TempPath(path) == WithSuffix(path, Suffix(path) \o <<".", "t", "m", "p">>)
BackupPath(path) == WithSuffix(path, Suffix(path) \o <<".", "b", "a", "c", "k", "u", "p">>)

Prefixes(path) == {SubSeq(path, 1, k) : k \in 0..Len(path)}

\* every path the handlers can touch
FsPaths ==
    LET canon == {Resolve(i) : i \in PathInputs}
        files == {q \in canon : q # <<>> /\ Suffix(q) # <<>>}
    IN  UNION {Prefixes(q) : q \in canon \cup {TempPath(q) : q \in files}
                                         \cup {BackupPath(q) : q \in files}
                                         \cup {<<N.srv, N.hidden_txt>>}}

Inodes == 1..NumInodes

Absent == [kind |-> "absent", ino |-> 0]
Dir == [kind |-> "dir", ino |-> 0]
File(ino) == [kind |-> "file", ino |-> ino]

\* the content found at a path: what kind of entry, and a file's chunks
View(ns, dt, path) ==
    [kind |-> ns[path].kind,
     data |-> IF ns[path].kind = "file" THEN dt[ns[path].ino] ELSE <<>>]

NoFileCall ==
    [tool |-> "none", file_path |-> EmptyPath, content |-> <<>>,
     create_backup |-> FALSE, recursive |-> FALSE, include_hidden |-> FALSE,
     file_filter |-> <<>>]
NoLocal ==
    [path |-> <<>>, fd |-> 0, n |-> 0, backup |-> <<>>, has_backup |-> FALSE,
     old |-> [kind |-> "absent", data |-> <<>>], renamed |-> FALSE, reads |-> {}]
NoFileOut ==
    [ok |-> FALSE, tool |-> "none", msg |-> <<>>, content |-> <<>>, characters |-> 0,
     backup_created |-> FALSE, files |-> {}, directories |-> {}]

FileRaise(tool, prefix, msg) ==
    [NoFileOut EXCEPT !.tool = tool, !.msg = <<prefix>> \o msg]

FileProcs == {"w1", "w2"}

NoWrite == [path |-> <<>>, content |-> <<>>]

InitFile ==
    /\ names = [q \in FsPaths |->
                    CASE q \in {<<>>, <<N.srv>>, <<N.etc>>} -> Dir
                      [] q = <<N.etc, N.a_txt>> -> File(1)
                      [] q = <<N.srv, N.hidden_txt>> -> File(2)
                      [] q = <<N.srv, N.a_txt>> -> File(3)
                      [] q = <<N.srv, N.a_bin>> -> File(4)
                      [] OTHER -> Absent]
    /\ data = [i \in Inodes |->
                  CASE i = 1 -> <<Chunk("secret", 1)>>
                    [] i \in {2, 3, 4} -> OldContent
                    [] OTHER -> <<>>]
    /\ fpc = [p \in FileProcs |-> "idle"]
    /\ fcall = [p \in FileProcs |-> NoFileCall]
    /\ flocal = [p \in FileProcs |-> NoLocal]
    /\ fout = [p \in FileProcs |-> NoFileOut]
    /\ ncalls = 0
    /\ written = NoWrite

\* the inodes no directory entry and no open file refers to lose their
\* content: they are free again
Reclaim(ns, dt, locals) ==
    LET used == {ns[q].ino : q \in FsPaths} \cup {locals[p].fd : p \in FileProcs}
    IN  [i \in Inodes |-> IF i \in used THEN dt[i] ELSE <<>>]

FreeInodes(ns, locals) ==
    Inodes \ ({ns[q].ino : q \in FsPaths} \cup {locals[p].fd : p \in FileProcs})

\* file.write of one chunk at chunk offset n of an open file
WriteAt(content, n, chunk) ==
    [i \in 1..(IF Len(content) > n + 1 THEN Len(content) ELSE n + 1) |->
        IF i = n + 1 THEN chunk
        ELSE IF i <= Len(content) THEN content[i] ELSE Chunk("hole", 0)]

----------------------------------------------------------------------------
(* src/tools/file_tools.py: write_file_content, one action per stretch of *)
(* code between two awaits                                                 *)

\* the call ends: its outcome is set and its open file, if any, is closed
EndCall(p, ns, dt, outcome) ==
    LET locals == [flocal EXCEPT ![p].fd = 0]
    IN  /\ fpc' = [fpc EXCEPT ![p] = "done"]
        /\ fout' = [fout EXCEPT ![p] = outcome]
        /\ flocal' = locals
        /\ names' = ns
        /\ data' = Reclaim(ns, dt, locals)

\* path.parent.mkdir(parents=True, exist_ok=True)
MkdirParents(ns, path) ==
    [q \in FsPaths |->
        IF q \in Prefixes(Parent(path)) /\ ns[q].kind = "absent" THEN Dir ELSE ns[q]]

\* the synchronous head of write_file_content, up to its first await:
\* argument check, _validate_path, extension check, mkdir of the parents
\* and the decision whether a backup is made
StartWrite(p, file_path, content, create_backup) ==
    /\ fpc[p] = "idle"
    /\ ncalls < MaxCalls
    /\ ncalls' = ncalls + 1
    /\ fcall' = [fcall EXCEPT ![p] =
                    [NoFileCall EXCEPT !.tool = "write_file", !.file_path = file_path,
                                       !.content = content,
                                       !.create_backup = create_backup]]
    /\ written' = IF file_path # EmptyPath /\ validate_path(file_path).ok
                      /\ validate_path(file_path).path = written.path
                   THEN NoWrite ELSE written
    /\ LET v == validate_path(file_path)
           path == v.path
       IN  IF file_path = EmptyPath
           THEN /\ fpc' = [fpc EXCEPT ![p] = "done"]
                /\ fout' = [fout EXCEPT ![p] =
                               FileRaise("write_file", "Failed to write file: ",
                                         <<"file_path is required">>)]
                /\ flocal' = [flocal EXCEPT ![p] = NoLocal]
                /\ UNCHANGED <<names, data>>
           ELSE IF ~v.ok
           THEN /\ fpc' = [fpc EXCEPT ![p] = "done"]
                /\ fout' = [fout EXCEPT ![p] = FileRaise("write_file", "Failed to write file: ", v.msg)]
                /\ flocal' = [flocal EXCEPT ![p] = NoLocal]
                /\ UNCHANGED <<names, data>>
           ELSE IF ~check_file_extension(path)
           THEN /\ fpc' = [fpc EXCEPT ![p] = "done"]
                /\ fout' = [fout EXCEPT ![p] =
                               FileRaise("write_file", "Failed to write file: ",
                                         <<"File extension not allowed: ", "<path.suffix>">>)]
                /\ flocal' = [flocal EXCEPT ![p] =
                                 [NoLocal EXCEPT !.path = path,
                                                 !.old = View(names, data, path)]]
                /\ UNCHANGED <<names, data>>
           ELSE IF \E q \in Prefixes(Parent(path)) : names[q].kind = "file"
           THEN /\ fpc' = [fpc EXCEPT ![p] = "done"]
                /\ fout' = [fout EXCEPT ![p] =
                               FileRaise("write_file", "Failed to write file: ", <<"NotADirectoryError">>)]
                /\ flocal' = [flocal EXCEPT ![p] =
                                 [NoLocal EXCEPT !.path = path,
                                                 !.old = View(names, data, path)]]
                /\ UNCHANGED <<names, data>>
           ELSE /\ names' = MkdirParents(names, path)
                /\ flocal' = [flocal EXCEPT ![p] =
                                 [NoLocal EXCEPT !.path = path,
                                                 !.old = View(names, data, path)]]
                /\ fpc' = [fpc EXCEPT ![p] =
                              IF create_backup /\ names[path].kind # "absent"
                              THEN "backup_read" ELSE "temp_open"]
                /\ fout' = [fout EXCEPT ![p] = NoFileOut]
                /\ UNCHANGED data
    /\ UNCHANGED <<calcVars, dispVars, reqVars, webVars>>

\* async with aiofiles.open(path, 'r') as src: backup_content = await src.read()
BackupRead(p) ==
    /\ fpc[p] = "backup_read"
    /\ LET path == flocal[p].path
       IN  IF names[path].kind # "file"
           THEN EndCall(p, names, data,
                        FileRaise("write_file", "Failed to write file: ", <<"IsADirectoryError">>))
           ELSE /\ flocal' = [flocal EXCEPT ![p].backup =
                                                UniversalNewlines(data[names[path].ino]),
                                            ![p].has_backup = TRUE,
                                            ![p].reads = @ \cup {path}]
                /\ fpc' = [fpc EXCEPT ![p] = "backup_open"]
                /\ UNCHANGED <<names, data, fout>>
    /\ UNCHANGED <<calcVars, dispVars, reqVars, webVars, written, fcall, ncalls>>

\* aiofiles.open(target, 'w'): the file is created or truncated; next is
\* where the call goes on when the open succeeds
OpenForWrite(p, target, next) ==
    IF names[target].kind = "dir"
    THEN EndCall(p, names, data,
                 FileRaise("write_file", "Failed to write file: ", <<"IsADirectoryError">>))
    ELSE IF names[Parent(target)].kind # "dir"
    THEN EndCall(p, names, data,
                 FileRaise("write_file", "Failed to write file: ", <<"FileNotFoundError">>))
    ELSE IF names[target].kind = "file"
    THEN /\ data' = [data EXCEPT ![names[target].ino] = <<>>]
         /\ flocal' = [flocal EXCEPT ![p].fd = names[target].ino, ![p].n = 0]
         /\ fpc' = [fpc EXCEPT ![p] = next]
         /\ UNCHANGED <<names, fout>>
    ELSE IF FreeInodes(names, flocal) = {}
    THEN EndCall(p, names, data,
                 FileRaise("write_file", "Failed to write file: ", <<"OSError: No space left on device">>))
    ELSE LET ino == CHOOSE i \in FreeInodes(names, flocal) :
                        \A j \in FreeInodes(names, flocal) : i <= j
         IN  /\ names' = [names EXCEPT ![target] = File(ino)]
             /\ data' = [data EXCEPT ![ino] = <<>>]
             /\ flocal' = [flocal EXCEPT ![p].fd = ino, ![p].n = 0]
             /\ fpc' = [fpc EXCEPT ![p] = next]
             /\ UNCHANGED fout

\* async with aiofiles.open(backup_path, 'w') as dst
BackupOpen(p) ==
    /\ fpc[p] = "backup_open"
    /\ OpenForWrite(p, BackupPath(flocal[p].path), "backup_write")
    /\ UNCHANGED <<calcVars, dispVars, reqVars, webVars, written, fcall, ncalls>>

\* await dst.write(backup_content), and the file is closed
BackupWrite(p) ==
    /\ fpc[p] = "backup_write"
    /\ LET locals == [flocal EXCEPT ![p].fd = 0]
       IN  /\ flocal' = locals
           /\ data' = Reclaim(names, [data EXCEPT ![flocal[p].fd] = flocal[p].backup],
                              locals)
    /\ fpc' = [fpc EXCEPT ![p] = "temp_open"]
    /\ UNCHANGED <<calcVars, dispVars, reqVars, webVars, written, names, fcall, fout, ncalls>>

\* async with aiofiles.open(temp_path, 'w') as file
TempOpen(p) ==
    /\ fpc[p] = "temp_open"
    /\ OpenForWrite(p, TempPath(flocal[p].path), "temp_write")
    /\ UNCHANGED <<calcVars, dispVars, reqVars, webVars, written, fcall, ncalls>>

\* await file.write(content): the content reaches the file chunk by chunk
TempWrite(p) ==
    /\ fpc[p] = "temp_write"
    /\ flocal[p].n < Len(fcall[p].content)
    /\ data' = [data EXCEPT ![flocal[p].fd] =
                   WriteAt(@, flocal[p].n, fcall[p].content[flocal[p].n + 1])]
    /\ flocal' = [flocal EXCEPT ![p].n = @ + 1]
    /\ UNCHANGED <<calcVars, dispVars, reqVars, webVars, written, names, fpc, fcall, fout, ncalls>>

\* temp_path.replace(path) when both exist as it needs them: the entry of
\* the target now names the inode of the source
Replace(ns, dt, source, target) ==
    [names |-> [ns EXCEPT ![target] = ns[source], ![source] = Absent],
     data |-> dt]

\* the file is closed and temp_path.replace(path) is called
Rename(p) ==
    /\ fpc[p] = "temp_write"
    /\ flocal[p].n = Len(fcall[p].content)
    /\ LET path == flocal[p].path
           temp == TempPath(path)
       IN  IF names[temp].kind # "file"
           THEN EndCall(p, names, data,
                        FileRaise("write_file", "Failed to write file: ", <<"FileNotFoundError">>))
           ELSE IF names[path].kind = "dir"
           THEN EndCall(p, names, data,
                        FileRaise("write_file", "Failed to write file: ", <<"IsADirectoryError">>))
           ELSE LET locals == [flocal EXCEPT ![p].fd = 0, ![p].renamed = TRUE]
                    after == Replace(names, data, temp, path)
                IN  /\ names' = after.names
                    /\ flocal' = locals
                    /\ data' = Reclaim(after.names, after.data, locals)
                    /\ fpc' = [fpc EXCEPT ![p] = "return"]
                    /\ UNCHANGED fout
    /\ UNCHANGED <<calcVars, dispVars, reqVars, webVars, written, fcall, ncalls>>

\* path.stat() and the result dictionary
WriteReturn(p) ==
    /\ fpc[p] = "return"
    /\ fpc' = [fpc EXCEPT ![p] = "done"]
    /\ written' = [path |-> flocal[p].path, content |-> fcall[p].content]
    /\ fout' = [fout EXCEPT ![p] =
                   [NoFileOut EXCEPT !.ok = TRUE, !.tool = "write_file",
                                     !.characters = Len(fcall[p].content),
                                     !.backup_created = flocal[p].has_backup]]
    /\ UNCHANGED <<calcVars, dispVars, reqVars, webVars, names, data, fcall, flocal, ncalls>>

WritingPcs == {"backup_read", "backup_open", "backup_write", "temp_open", "temp_write"}

\* an awaited file operation fails with an OSError
IoError(p) ==
    /\ fpc[p] \in WritingPcs
    /\ EndCall(p, names, data, FileRaise("write_file", "Failed to write file: ", <<"OSError">>))
    /\ UNCHANGED <<calcVars, dispVars, reqVars, webVars, written, fcall, ncalls>>

\* the server process dies while the call is in flight
Crash(p) ==
    /\ fpc[p] \in WritingPcs \cup {"return", "read"}
    /\ LET locals == [flocal EXCEPT ![p].fd = 0]
       IN  /\ flocal' = locals
           /\ data' = Reclaim(names, data, locals)
    /\ fpc' = [fpc EXCEPT ![p] = "crashed"]
    /\ UNCHANGED <<calcVars, dispVars, reqVars, webVars, written, names, fcall, fout, ncalls>>

\* the caller has its answer (or the server is started again)
Finish(p) ==
    /\ fpc[p] \in {"done", "crashed"}
    /\ fpc' = [fpc EXCEPT ![p] = "idle"]
    /\ fcall' = [fcall EXCEPT ![p] = NoFileCall]
    /\ flocal' = [flocal EXCEPT ![p] = NoLocal]
    /\ fout' = [fout EXCEPT ![p] = NoFileOut]
    /\ UNCHANGED <<calcVars, dispVars, reqVars, webVars, written, names, data, ncalls>>

----------------------------------------------------------------------------
(* src/tools/file_tools.py: read_file_content and list_directory *)

ReadChecks_ExtensionFirst(ns, path) ==
    IF ~check_file_extension(path)
    THEN <<"File extension not allowed: ", "<path.suffix>">>
    ELSE IF ns[path].kind = "absent" THEN <<"File not found: ", "<file_path>">>
    ELSE IF ns[path].kind # "file" THEN <<"Path is not a file: ", "<file_path>">>
    ELSE <<>>

\* the checks of read_file_content on a validated path, in their order:
\* path.exists(), path.is_file(), _check_file_extension(path); the message
\* of the ValueError raised, <<>> when all pass
ReadChecks(ns, path) ==
    IF ns[path].kind = "absent" THEN <<"File not found: ", "<file_path>">>
    ELSE IF ns[path].kind # "file" THEN <<"Path is not a file: ", "<file_path>">>
    ELSE IF ~check_file_extension(path)
    THEN <<"File extension not allowed: ", "<path.suffix>">>
    ELSE <<>>

\* the synchronous head of read_file_content: argument check,
\* _validate_path, then the checks on the path
StartRead(p, file_path) ==
    /\ fpc[p] = "idle"
    /\ ncalls < MaxCalls
    /\ ncalls' = ncalls + 1
    /\ fcall' = [fcall EXCEPT ![p] =
                    [NoFileCall EXCEPT !.tool = "read_file", !.file_path = file_path]]
    /\ LET v == validate_path(file_path)
           path == v.path
           fail(msg) ==
               /\ fpc' = [fpc EXCEPT ![p] = "done"]
               /\ fout' = [fout EXCEPT ![p] = FileRaise("read_file", "Failed to read file: ", msg)]
       IN  /\ flocal' = [flocal EXCEPT ![p] = [NoLocal EXCEPT !.path = path]]
           /\ IF file_path = EmptyPath THEN fail(<<"file_path is required">>)
              ELSE IF ~v.ok THEN fail(v.msg)
              ELSE IF ReadChecks(names, path) # <<>> THEN fail(ReadChecks(names, path))
              ELSE /\ fpc' = [fpc EXCEPT ![p] = "read"]
                   /\ fout' = [fout EXCEPT ![p] = NoFileOut]
    /\ UNCHANGED <<calcVars, dispVars, reqVars, webVars, written, names, data>>

\* async with aiofiles.open(path, 'r'): content = await file.read(), then
\* path.stat() and the result dictionary
ReadContent(p) ==
    /\ fpc[p] = "read"
    /\ LET path == flocal[p].path
           content == UniversalNewlines(data[names[path].ino])
       IN  IF names[path].kind # "file"
           THEN /\ fout' = [fout EXCEPT ![p] =
                               FileRaise("read_file", "Failed to read file: ",
                                         <<"FileNotFoundError">>)]
                /\ UNCHANGED flocal
           ELSE /\ fout' = [fout EXCEPT ![p] =
                               [NoFileOut EXCEPT !.ok = TRUE, !.tool = "read_file",
                                                 !.content = content,
                                                 !.characters = Len(content)]]
                /\ flocal' = [flocal EXCEPT ![p].reads = @ \cup {path}]
    /\ fpc' = [fpc EXCEPT ![p] = "done"]
    /\ UNCHANGED <<calcVars, dispVars, reqVars, webVars, written, names, data, fcall, ncalls>>

\* _should_include(item_path)
should_include(item, include_hidden, file_filter) ==
    LET name == item[Len(item)]
    IN  IF ~include_hidden /\ StartsWith(name, <<".">>) THEN FALSE
        ELSE IF file_filter # <<>> /\ ~Contains(name, file_filter) THEN FALSE
        ELSE TRUE

\* the entries _collect_items(path) visits and keeps: an entry is reached
\* through kept directories only, and below the first level only when
\* recursive
Collected(root, recursive, include_hidden, file_filter) ==
    {q \in FsPaths :
        /\ Len(q) > Len(root)
        /\ SubSeq(q, 1, Len(root)) = root
        /\ names[q].kind # "absent"
        /\ recursive \/ Len(q) = Len(root) + 1
        /\ \A k \in (Len(root) + 1)..Len(q) :
              should_include(SubSeq(q, 1, k), include_hidden, file_filter)}

\* list_directory(args): it has no await and runs in one piece
ListDirectory(p, directory_path, recursive, include_hidden, file_filter) ==
    /\ fpc[p] = "idle"
    /\ ncalls < MaxCalls
    /\ ncalls' = ncalls + 1
    /\ fcall' = [fcall EXCEPT ![p] =
                    [NoFileCall EXCEPT !.tool = "list_directory",
                                       !.file_path = directory_path,
                                       !.recursive = recursive,
                                       !.include_hidden = include_hidden,
                                       !.file_filter = file_filter]]
    /\ LET v == validate_path(directory_path)
           path == v.path
           fail(msg) ==
               /\ fout' = [fout EXCEPT ![p] = FileRaise("list_directory", "Failed to list directory: ", msg)]
               /\ flocal' = [flocal EXCEPT ![p] = [NoLocal EXCEPT !.path = path]]
       IN  IF ~v.ok THEN fail(v.msg)
           ELSE IF names[path].kind = "absent"
           THEN fail(<<"Directory not found: ", "<dir_path>">>)
           ELSE IF names[path].kind # "dir"
           THEN fail(<<"Path is not a directory: ", "<dir_path>">>)
           ELSE LET items == Collected(path, recursive, include_hidden, file_filter)
                    listed == {path} \cup
                              (IF recursive THEN {q \in items : names[q].kind = "dir"}
                               ELSE {})
                IN  /\ fout' = [fout EXCEPT ![p] =
                                   [NoFileOut EXCEPT
                                       !.ok = TRUE, !.tool = "list_directory",
                                       !.files = {q \in items : names[q].kind = "file"},
                                       !.directories = {q \in items : names[q].kind = "dir"}]]
                    /\ flocal' = [flocal EXCEPT ![p] =
                                     [NoLocal EXCEPT !.path = path, !.reads = listed]]
    /\ fpc' = [fpc EXCEPT ![p] = "done"]
    /\ UNCHANGED <<calcVars, dispVars, reqVars, webVars, written, names, data>>

\* analyze_csv(args) and process_json(args) up to the point where the file
\* has been read: Path(file_path) is used as it is given, the operating
\* system resolves it; neither handler has an await
ReadDataFile(p, tool, file_path) ==
    /\ fpc[p] = "idle"
    /\ ncalls < MaxCalls
    /\ ncalls' = ncalls + 1
    /\ fcall' = [fcall EXCEPT ![p] =
                    [NoFileCall EXCEPT !.tool = tool, !.file_path = file_path]]
    /\ LET path == Resolve(file_path)
           prefix == IF tool = "analyze_csv" THEN "CSV analysis failed: "
                     ELSE "JSON processing failed: "
           fail(msg) ==
               /\ fout' = [fout EXCEPT ![p] = FileRaise(tool, prefix, msg)]
               /\ flocal' = [flocal EXCEPT ![p] = [NoLocal EXCEPT !.path = path]]
       IN  IF file_path = EmptyPath THEN fail(<<"file_path is required">>)
           ELSE IF names[path].kind = "absent"
           THEN fail(<<"File not found: ", "<file_path>">>)
           ELSE IF names[path].kind = "dir" THEN fail(<<"IsADirectoryError">>)
           ELSE /\ fout' = [fout EXCEPT ![p] =
                               [NoFileOut EXCEPT !.ok = TRUE, !.tool = tool]]
                /\ flocal' = [flocal EXCEPT ![p] =
                                 [NoLocal EXCEPT !.path = path, !.reads = {path}]]
    /\ fpc' = [fpc EXCEPT ![p] = "done"]
    /\ UNCHANGED <<calcVars, dispVars, reqVars, webVars, written, names, data>>

\* one client: a call is made when the call before it has ended
NextFile ==
    \E p \in {"w1"} :
        \/ \E file_path \in PathInputs,
              content \in {ContentA, ContentB, ContentCRLF},
              create_backup \in BOOLEAN :
               StartWrite(p, file_path, content, create_backup)
        \/ \E file_path \in PathInputs : StartRead(p, file_path)
        \/ \E directory_path \in PathInputs, recursive \in BOOLEAN,
              include_hidden \in BOOLEAN, file_filter \in {<<>>, <<"b">>} :
               ListDirectory(p, directory_path, recursive, include_hidden, file_filter)
        \/ BackupRead(p) \/ BackupOpen(p) \/ BackupWrite(p)
        \/ TempOpen(p) \/ TempWrite(p) \/ Rename(p) \/ WriteReturn(p)
        \/ ReadContent(p)
        \/ IoError(p) \/ Crash(p) \/ Finish(p)

----------------------------------------------------------------------------
(* src/tools/web_tools.py: REQUEST_SEMAPHORE and the calls it gates *)

MAX_CONCURRENT_REQUESTS == 5

\* the calls of fetch_webpage and download_file, numbered in the order in
\* which they are made; a call is "idle" before it is made and "done" after
\* it has left the handler
WebProcs == 1..NumWebCalls

\* the url argument: a good one, a missing one, one with another scheme
Urls == {"http", "missing", "ftp"}

Locked_IgnoresValue(value, waiters) == waiters # <<>>

\* Semaphore.locked(): no future is ever cancelled here
Locked(value, waiters) == value = 0 \/ waiters # <<>>

WakeUpNext_Last(value, waiters) ==
    LET pending == {i \in 1..Len(waiters) : ~waiters[i].done}
    IN  IF pending = {} THEN [value |-> value, waiters |-> waiters]
        ELSE LET last == CHOOSE i \in pending : \A j \in pending : j <= i
             IN  [value |-> value - 1,
                  waiters |-> [waiters EXCEPT ![last].done = TRUE]]

\* Semaphore._wake_up_next(): the first future that is not done gets its
\* result and takes a permit
WakeUpNext(value, waiters) ==
    LET pending == {i \in 1..Len(waiters) : ~waiters[i].done}
    IN  IF pending = {} THEN [value |-> value, waiters |-> waiters]
        ELSE LET first == CHOOSE i \in pending : \A j \in pending : i <= j
             IN  [value |-> value - 1,
                  waiters |-> [waiters EXCEPT ![first].done = TRUE]]

\* Semaphore.release()
Release(value, waiters) == WakeUpNext(value + 1, waiters)

\* what the synchronous head of the handler body raises for a url, "none"
\* when it reaches the request
HeadError(url) ==
    CASE url = "missing" -> "url is required"
      [] url = "ftp" -> "Invalid URL: Only HTTP and HTTPS URLs are allowed"
      [] OTHER -> "none"

EnterBody_KeepsPermitOnError(p, url, value, waiters) ==
    /\ semValue' = value
    /\ semWaiters' = waiters
    /\ wpc' = [wpc EXCEPT ![p] = IF HeadError(url) # "none" THEN "done" ELSE "holding"]

\* the body starts with the permit held: a bad url raises at once and the
\* permit is released on the way out, a good one reaches the request
EnterBody(p, url, value, waiters) ==
    IF HeadError(url) # "none"
    THEN LET after == Release(value, waiters)
         IN  /\ semValue' = after.value
             /\ semWaiters' = after.waiters
             /\ wpc' = [wpc EXCEPT ![p] = "done"]
    ELSE /\ semValue' = value
         /\ semWaiters' = waiters
         /\ wpc' = [wpc EXCEPT ![p] = "holding"]

\* "async with REQUEST_SEMAPHORE" of a new call: Semaphore.acquire() up to
\* its await.  The url argument is looked at when the body starts and not
\* before, so it is drawn there.
Arrive(p) ==
    /\ wpc[p] = "idle"
    /\ \A q \in WebProcs : q < p => wpc[q] # "idle"
    /\ IF ~Locked(semValue, semWaiters)
       THEN \E url \in Urls : EnterBody(p, url, semValue - 1, semWaiters)
       ELSE /\ semWaiters' = Append(semWaiters, [proc |-> p, done |-> FALSE])
            /\ wpc' = [wpc EXCEPT ![p] = "waiting"]
            /\ UNCHANGED semValue
    /\ UNCHANGED <<calcVars, dispVars, reqVars, fileVars, download, disk>>

\* Semaphore.acquire() after its await: the future is removed from the
\* queue and the body starts
Resume(p) ==
    /\ wpc[p] = "waiting"
    /\ \E i \in 1..Len(semWaiters) : semWaiters[i].proc = p /\ semWaiters[i].done
    /\ LET rest == SelectSeq(semWaiters, LAMBDA w : w.proc # p)
           woken == IF semValue > 0 THEN WakeUpNext(semValue, rest)
                    ELSE [value |-> semValue, waiters |-> rest]
       IN  \E url \in Urls : EnterBody(p, url, woken.value, woken.waiters)
    /\ UNCHANGED <<calcVars, dispVars, reqVars, fileVars, download, disk>>

\* the way out of "async with REQUEST_SEMAPHORE": Semaphore.release()
LeaveBody(p) ==
    /\ wpc[p] = "holding"
    /\ LET after == Release(semValue, semWaiters)
       IN  /\ semValue' = after.value
           /\ semWaiters' = after.waiters
    /\ wpc' = [wpc EXCEPT ![p] = "done"]
    /\ UNCHANGED <<calcVars, dispVars, reqVars, fileVars, download, disk>>

\* the handler returns its result dictionary
ReturnResult(p) == LeaveBody(p)

\* the request fails: aiohttp.ClientError, or a status other than 200
RaiseNetworkError(p) == LeaveBody(p)

\* the response is larger than MAX_RESPONSE_SIZE
RaiseTooLarge(p) == LeaveBody(p)

NextWeb ==
    \E p \in WebProcs :
        \/ Arrive(p)
        \/ Resume(p)
        \/ ReturnResult(p)
        \/ RaiseNetworkError(p)
        \/ RaiseTooLarge(p)

----------------------------------------------------------------------------
(* src/tools/web_tools.py: download_file, one call followed from its      *)
(* arguments to its result.  A url is what urlparse finds in it: whether   *)
(* it was given, its scheme and the last part of its path.  A response is  *)
(* its status, its Content-Length header (-1 when it has none) and the     *)
(* number of bytes its body holds.                                         *)

MAX_RESPONSE_SIZE == 1024 * 1024

\* the size iter_chunked is called with: no chunk is larger
ChunkSize == 8192

\* the names download_file can open in the working directory
LocalNames == {N.a_txt, N.a_bin, N.downloaded_file}

NoDownload ==
    [pc |-> "idle", url |-> [given |-> FALSE, scheme |-> "", last |-> <<>>],
     filename_arg |-> <<>>, filename |-> <<>>,
     response |-> [status |-> 0, content_length |-> 0 - 1, body |-> 0],
     first |-> 0, downloaded_size |-> 0, ok |-> FALSE, msg |-> "none",
     before |-> <<>>]

\* download_file(args) up to session.get: the semaphore is free, the
\* arguments are checked
StartDownload ==
    /\ download.pc = "idle"
    /\ ~Locked(semValue, semWaiters)
    /\ \E url \in {[given |-> FALSE, scheme |-> "", last |-> <<>>],
                    [given |-> TRUE, scheme |-> "ftp", last |-> N.a_txt],
                    [given |-> TRUE, scheme |-> "http", last |-> N.a_txt],
                    [given |-> TRUE, scheme |-> "https", last |-> <<>>],
                    [given |-> TRUE, scheme |-> "http", last |-> N.a_dots_b_txt]},
          filename_arg \in {<<>>, N.a_bin, <<".", ".", "/", "x">>, <<"a", "/", "b">>} :
          LET filename == IF filename_arg # <<>> THEN filename_arg
                          ELSE IF url.last # <<>> THEN url.last
                          ELSE N.downloaded_file
              call == [NoDownload EXCEPT !.url = url, !.filename_arg = filename_arg,
                                         !.before = disk]
              raise(msg) ==
                  /\ download' = [call EXCEPT !.pc = "done", !.msg = msg]
                  /\ UNCHANGED semValue
          IN  IF ~url.given THEN raise("Download failed: url is required")
              ELSE IF url.scheme \notin {"http", "https"}
              THEN raise("Download failed: Invalid URL: Only HTTP and HTTPS URLs are allowed")
              ELSE IF Contains(filename, <<".", ".">>) \/ Contains(filename, <<"/">>)
              THEN raise("Download failed: Invalid filename")
              ELSE /\ download' = [call EXCEPT !.pc = "request", !.filename = filename]
                   /\ semValue' = semValue - 1
    /\ UNCHANGED <<calcVars, dispVars, reqVars, fileVars, semWaiters, wpc, disk>>

\* session.get answers: the status and the Content-Length are checked, the
\* local file is opened with mode 'wb'
Respond ==
    /\ download.pc = "request"
    /\ \E status \in {200, 404}, has_length \in BOOLEAN, first \in {ChunkSize, 4096, 1},
          body \in {0, 1, MAX_RESPONSE_SIZE, MAX_RESPONSE_SIZE + 1,
                    MAX_RESPONSE_SIZE + ChunkSize, MAX_RESPONSE_SIZE + 2 * ChunkSize} :
          LET content_length == IF has_length THEN body ELSE 0 - 1
              answered == [download EXCEPT
                              !.response = [status |-> status,
                                            content_length |-> content_length,
                                            body |-> body]]
              raise(msg) ==
                  /\ download' = [answered EXCEPT !.pc = "done", !.msg = msg]
                  /\ LET after == Release(semValue, semWaiters)
                     IN  semValue' = after.value /\ semWaiters' = after.waiters
                  /\ UNCHANGED disk
          IN  IF status # 200 THEN raise("Download failed: Download failed with status <status>")
              ELSE IF content_length # 0 - 1 /\ content_length > MAX_RESPONSE_SIZE
              THEN raise("Download failed: File too large: <content_length> bytes")
              ELSE /\ download' = [answered EXCEPT !.pc = "transfer", !.first = first]
                   /\ disk' = [disk EXCEPT ![download.filename] =
                                   [exists |-> TRUE, size |-> 0]]
                   /\ UNCHANGED <<semValue, semWaiters>>
    /\ UNCHANGED <<calcVars, dispVars, reqVars, fileVars, wpc>>

ReceiveChunk_ChecksBeforeWriting ==
    /\ download.pc = "transfer"
    /\ download.downloaded_size < download.response.body
    /\ LET remaining == download.response.body - download.downloaded_size
           most == IF download.downloaded_size = 0 THEN download.first ELSE ChunkSize
           chunk == IF remaining < most THEN remaining ELSE most
           downloaded_size == download.downloaded_size + chunk
       IN  IF downloaded_size > MAX_RESPONSE_SIZE
           THEN /\ UNCHANGED disk
                /\ download' = [download EXCEPT
                                   !.downloaded_size = downloaded_size,
                                   !.pc = "done",
                                   !.msg = "Download failed: File too large: <downloaded_size> bytes"]
                /\ LET after == Release(semValue, semWaiters)
                   IN  semValue' = after.value /\ semWaiters' = after.waiters
           ELSE /\ disk' = [disk EXCEPT ![download.filename].size = @ + chunk]
                /\ download' = [download EXCEPT !.downloaded_size = downloaded_size]
                /\ UNCHANGED <<semValue, semWaiters>>
    /\ UNCHANGED <<calcVars, dispVars, reqVars, fileVars, wpc>>

\* one turn of "async for chunk in response.content.iter_chunked(8192)": the
\* chunk is written, counted, and the count is compared with the ceiling.
\* The first chunk may be a short one.
ReceiveChunk ==
    /\ download.pc = "transfer"
    /\ download.downloaded_size < download.response.body
    /\ LET remaining == download.response.body - download.downloaded_size
           most == IF download.downloaded_size = 0 THEN download.first ELSE ChunkSize
           chunk == IF remaining < most THEN remaining ELSE most
           downloaded_size == download.downloaded_size + chunk
       IN  /\ disk' = [disk EXCEPT ![download.filename].size = @ + chunk]
           /\ IF downloaded_size > MAX_RESPONSE_SIZE
              THEN /\ download' = [download EXCEPT
                                      !.downloaded_size = downloaded_size,
                                      !.pc = "done",
                                      !.msg = "Download failed: File too large: <downloaded_size> bytes"]
                   /\ LET after == Release(semValue, semWaiters)
                      IN  semValue' = after.value /\ semWaiters' = after.waiters
              ELSE /\ download' = [download EXCEPT !.downloaded_size = downloaded_size]
                   /\ UNCHANGED <<semValue, semWaiters>>
    /\ UNCHANGED <<calcVars, dispVars, reqVars, fileVars, wpc>>

\* the body has ended: the result dictionary is returned
EndOfBody ==
    /\ download.pc = "transfer"
    /\ download.downloaded_size = download.response.body
    /\ download' = [download EXCEPT !.pc = "done", !.ok = TRUE]
    /\ LET after == Release(semValue, semWaiters)
       IN  semValue' = after.value /\ semWaiters' = after.waiters
    /\ UNCHANGED <<calcVars, dispVars, reqVars, fileVars, wpc, disk>>

\* session.get or the reading of the body raises aiohttp.ClientError
ConnectionLost ==
    /\ download.pc \in {"request", "transfer"}
    /\ download' = [download EXCEPT !.pc = "done",
                                    !.msg = "Download failed: <ClientError>"]
    /\ LET after == Release(semValue, semWaiters)
       IN  semValue' = after.value /\ semWaiters' = after.waiters
    /\ UNCHANGED <<calcVars, dispVars, reqVars, fileVars, wpc, disk>>

----------------------------------------------------------------------------
(* Specifications *)

Init ==
    /\ calcCall = NoCall
    /\ calcOut = NoOutcome
    /\ chainFrom = NoCall
    /\ request = [name |-> "none", args |-> EmptyArgs]
    /\ handlerOut = NoOutcome
    /\ ran = "none"
    /\ replies = <<>>
    /\ escaped = FALSE
    /\ tools = register_tools
    /\ toolList = <<>>
    /\ NoRequest
    /\ InitFile
    /\ semValue = MAX_CONCURRENT_REQUESTS
    /\ semWaiters = <<>>
    /\ wpc = [p \in WebProcs |-> "idle"]
    /\ download = NoDownload
    /\ disk = [name \in LocalNames |->
                  IF name = N.a_bin THEN [exists |-> TRUE, size |-> 5]
                  ELSE [exists |-> FALSE, size |-> 0]]

Next == NextCalc \/ CallTool \/ NextRequests \/ NextFile \/ NextWeb

Spec == Init /\ [][Next]_vars

\* the calculator handlers called directly
SpecCalc == Init /\ [][NextCalc]_vars

\* the dispatcher
SpecDispatch == Init /\ [][CallTool]_vars

\* one download_file call
SpecDownload ==
    Init /\ [][StartDownload \/ Respond \/ ReceiveChunk \/ EndOfBody
                 \/ ConnectionLost]_vars

\* the requests that do not call a tool handler, one at a time: listTools,
\* callTool with its handler's outcome left open, readResource, getPrompt
CallToolAlone == NoRequest /\ CallTool

SpecCatalog ==
    Init /\ [][ListTools \/ CallToolAlone \/ ReadResource \/ GetPrompt \/ Answer]_vars

\* the resource, prompt and data handlers, called one after the other
SpecRequests == Init /\ [][NextRequests]_vars

\* the file handlers, called one after the other
SpecFile == Init /\ [][NextFile]_vars

\* the file handlers and the data handlers, called one after the other
SpecFileData ==
    Init /\ [][\/ NextFile
               \/ \E tool \in {"analyze_csv", "process_json"}, file_path \in PathInputs :
                     ReadDataFile("w1", tool, file_path)]_vars

\* two write_file calls to one target at a time: their calls interleave at
\* the awaits
SpecFileBoth ==
    Init /\ [][\E p \in FileProcs :
                  \/ \E content \in {ContentA, ContentB}, create_backup \in BOOLEAN :
                        StartWrite(p, PathArg(TRUE, <<N.srv, N.a_txt>>), content,
                                   create_backup)
                  \/ BackupRead(p) \/ BackupOpen(p) \/ BackupWrite(p)
                  \/ TempOpen(p) \/ TempWrite(p) \/ Rename(p) \/ WriteReturn(p)
                  \/ IoError(p) \/ Finish(p)]_vars

\* concurrent fetch_webpage and download_file calls
SpecWeb == Init /\ [][NextWeb]_vars

\* the same calls on an event loop that runs every callback it has scheduled
\* and with requests that come to an end: a call whose future has its result
\* resumes, a call in its body leaves it
SpecWebFair ==
    /\ Init
    /\ [][NextWeb]_vars
    /\ \A p \in WebProcs :
          /\ WF_vars(Resume(p))
          /\ WF_vars(ReturnResult(p) \/ RaiseNetworkError(p) \/ RaiseTooLarge(p))

----------------------------------------------------------------------------
(* Claims about the dispatcher, checked under SpecDispatch *)

Dispatched == request.name # "none"
ErrorMarked(envelope) == Len(envelope.text) > 0 /\ envelope.text[1] = "Error: "

\* C1: every callTool returns exactly one envelope and raises nothing to its
\* caller, and the envelope text begins with "Error: " exactly when the name
\* was unknown or the invoked handler raised.
C1_OneEnvelopeMarkedIffFailed ==
    Dispatched =>
        /\ Len(replies) = 1
        /\ ~escaped
        /\ ErrorMarked(replies[1]) <=>
              (request.name \notin RegisteredTools \/ ~handlerOut.ok)

C1_Witness ==
    /\ request.name = "divide"
    /\ ~handlerOut.ok
    /\ Len(replies) = 1
    /\ ErrorMarked(replies[1])

\* C2: a name that is not registered yields the error envelope
\* "Error: Unknown tool: <name>" for every argument map, and no handler runs.
C2_UnknownNameIsError ==
    (Dispatched /\ request.name \notin RegisteredTools) =>
        /\ replies = <<Envelope(<<"Error: ", "Unknown tool: ", request.name>>)>>
        /\ ran = "none"

C2_Witness ==
    /\ request.name = "delete_file"
    /\ request.args # EmptyArgs
    /\ ran = "none"
    /\ replies = <<Envelope(<<"Error: ", "Unknown tool: ", "delete_file">>)>>

----------------------------------------------------------------------------
(* Claims about the calculator, checked under SpecCalc *)

IsNum(args, key) == key \in DOMAIN args /\ args[key].k = "num"
IsStr(args, key) == key \in DOMAIN args /\ args[key].k = "str"

\* r = x + y, r = x - y, r = x * y, r * y = x on rationals, by cross
\* multiplication
EqSum(r, x, y) == r[1] * x[2] * y[2] = r[2] * (x[1] * y[2] + y[1] * x[2])
EqDiff(r, x, y) == r[1] * x[2] * y[2] = r[2] * (x[1] * y[2] - y[1] * x[2])
EqProd(r, x, y) == r[1] * x[2] * y[2] = r[2] * x[1] * y[1]
EqQuot(r, x, y) == r[1] * x[2] * y[1] = r[2] * x[1] * y[2]

\* r = v * factor and r = v / factor, stated as the ratio of r and v
IsTimes(r, v, factor) ==
    IF v[1] = 0 THEN r = RZero ELSE Norm(r[1] * v[2], r[2] * v[1]) = factor
IsOver(r, v, factor) ==
    IF v[1] = 0 THEN r = RZero ELSE Norm(v[1] * r[2], v[2] * r[1]) = factor

ConvertCall ==
    /\ calcCall.tool = "convert_units"
    /\ IsNum(calcCall.args, "value")
    /\ IsStr(calcCall.args, "from_unit")
    /\ IsStr(calcCall.args, "to_unit")

\* C6: convertUnits(v, u, u) returns v unchanged for every unit u and every
\* value v.
C6_IdentityConversion ==
    (ConvertCall /\ calcCall.args["from_unit"].s \in Units
                 /\ calcCall.args["to_unit"] = calcCall.args["from_unit"]) =>
        /\ calcOut.ok
        /\ calcOut.result = Number(calcCall.args["value"].n)

\* C20: a value converted from celsius to fahrenheit and the result
\* converted from fahrenheit to celsius is the value again
C20_CelsiusRoundTrip ==
    (/\ calcCall.tool = "convert_units"
     /\ chainFrom.tool = "convert_units"
     /\ "value" \in DOMAIN chainFrom.args
     /\ chainFrom.args["value"].k = "num"
     /\ Lower(chainFrom.args["from_unit"].s) = U.celsius
     /\ Lower(chainFrom.args["to_unit"].s) = U.fahrenheit)
      => /\ calcOut.ok
         /\ calcOut.result = Number(chainFrom.args["value"].n)

\* -1 celsius is 30.2 fahrenheit, which is -1 celsius
C20_Witness ==
    /\ calcCall.tool = "convert_units"
    /\ chainFrom.tool = "convert_units"
    /\ chainFrom.args = [value |-> NumV(Rat(0 - 1)), from_unit |-> StrV(U.celsius),
                         to_unit |-> StrV(U.fahrenheit)]
    /\ calcCall.args["value"] = NumV(<<151, 5>>)
    /\ calcOut.ok
    /\ calcOut.result = Number(Rat(0 - 1))

\* C7: for from # to, a scalar forward factor multiplies, a scalar factor
\* found under the reverse key only divides, and a pair with neither key
\* (such as mm to m) fails as unsupported.
C7_ForwardReverseUnsupported ==
    ConvertCall =>
        LET v == calcCall.args["value"].n
            f == Lower(calcCall.args["from_unit"].s)
            t == Lower(calcCall.args["to_unit"].s)
            fwd == ConversionKey(f, t)
            rev == ConversionKey(t, f)
        IN  f # t =>
              /\ fwd \in ScalarKeys =>
                    /\ calcOut.ok /\ calcOut.result.kind = "num"
                    /\ IsTimes(calcOut.result.n, v, CONVERSION_FACTORS[fwd].factor)
              /\ (f = U.cm /\ t = U.m) =>
                    calcOut.ok /\ EqQuot(calcOut.result.n, v, Rat(100))
              /\ (fwd \notin DOMAIN CONVERSION_FACTORS /\ rev \in ScalarKeys) =>
                    /\ calcOut.ok /\ calcOut.result.kind = "num"
                    /\ IsOver(calcOut.result.n, v, CONVERSION_FACTORS[rev].factor)
              /\ (fwd \notin DOMAIN CONVERSION_FACTORS
                    /\ rev \notin DOMAIN CONVERSION_FACTORS) =>
                    /\ ~calcOut.ok
                    /\ calcOut.result = NoValue
                    /\ calcOut.msg = <<"Invalid input: ", "Conversion from ",
                                       "<from_unit>", " to ", "<to_unit>",
                                       " not supported">>

\* m to cm is found under the reverse key cm_to_m only: 1/2 m = 50 cm
C7_Witness ==
    /\ ConvertCall
    /\ calcCall.args["value"].n = <<1, 2>>
    /\ calcCall.args["from_unit"].s = U.m
    /\ calcCall.args["to_unit"].s = U.cm
    /\ calcOut.ok
    /\ calcOut.result = Number(Rat(50))

BasicCall(operation) ==
    /\ calcCall.tool = operation
    /\ IsNum(calcCall.args, "a")
    /\ IsNum(calcCall.args, "b")

\* C8: add, subtract and multiply of numbers return a+b, a-b and a*b, whatever
\* was called before; add(5,3) followed by multiply of its result and 2
\* yields 8 and then 16.
C8_AddSubtractMultiply ==
    /\ \A operation \in {"add", "subtract", "multiply"} :
          BasicCall(operation) =>
              LET a == calcCall.args["a"].n
                  b == calcCall.args["b"].n
              IN  /\ calcOut.ok /\ calcOut.result.kind = "num"
                  /\ operation = "add" => EqSum(calcOut.result.n, a, b)
                  /\ operation = "subtract" => EqDiff(calcOut.result.n, a, b)
                  /\ operation = "multiply" => EqProd(calcOut.result.n, a, b)
    /\ (/\ chainFrom = [tool |-> "add", args |-> [a |-> NumV(Rat(5)), b |-> NumV(Rat(3))]]
        /\ calcCall.tool = "multiply") =>
          /\ calcCall.args["a"] = NumV(Rat(8))
          /\ calcOut.result = Number(Rat(16))

C8_Witness ==
    /\ chainFrom = [tool |-> "add", args |-> [a |-> NumV(Rat(5)), b |-> NumV(Rat(3))]]
    /\ calcCall = [tool |-> "multiply", args |-> [a |-> NumV(Rat(8)), b |-> NumV(Rat(2))]]
    /\ calcOut.ok
    /\ calcOut.result = Number(Rat(16))

Failed(message) ==
    /\ ~calcOut.ok
    /\ calcOut.result = NoValue
    /\ calcOut.msg = <<"Invalid input: ", message>>

\* C9: divide fails for b = 0 and returns a/b otherwise; sqrt fails for x < 0
\* and otherwise returns the root r, r*r = x up to the precision of the
\* root (exactly on perfect squares); log fails for x <= 0; a failing call
\* produces no result value.
C9_DomainErrors ==
    /\ BasicCall("divide") =>
          LET a == calcCall.args["a"].n
              b == calcCall.args["b"].n
          IN  IF b = RZero THEN Failed("Cannot divide by zero")
              ELSE /\ calcOut.ok /\ calcOut.result.kind = "num"
                   /\ EqProd(a, calcOut.result.n, b)
    /\ (calcCall.tool = "sqrt" /\ IsNum(calcCall.args, "x")) =>
          LET x == calcCall.args["x"].n
              r == calcOut.result.n
              ulp == <<1, SqrtPrec>>
          IN  IF RLt(x, RZero) THEN Failed("Cannot take square root of negative number")
              ELSE /\ calcOut.ok /\ calcOut.result.kind = "num"
                   /\ RLe(RZero, r)
                   /\ RLe(RMul(r, r), x)
                   /\ RLt(x, RMul(RAdd(r, ulp), RAdd(r, ulp)))
                   /\ \A k \in 0..MaxNum : x = Rat(k * k) => r = Rat(k)
    /\ (calcCall.tool = "log" /\ IsNum(calcCall.args, "x")
          /\ RLe(calcCall.args["x"].n, RZero)) =>
          Failed("Cannot take logarithm of non-positive number")

C9_Witness ==
    /\ BasicCall("divide")
    /\ calcCall.args["a"].n = Rat(3)
    /\ calcCall.args["b"].n = RZero
    /\ ~calcOut.ok
    /\ calcOut.exc = "ValueError"

\* C10: add, subtract, multiply and divide fail with a ValueError, computing
\* nothing, when a required argument a or b is missing or is not a number.
C10_SchemaViolationIsValueError ==
    (calcCall.tool \in BasicOps
        /\ (~IsNum(calcCall.args, "a") \/ ~IsNum(calcCall.args, "b"))) =>
        /\ ~calcOut.ok
        /\ calcOut.exc = "ValueError"

----------------------------------------------------------------------------
(* Claims about the file handlers, checked under SpecFile *)

WriteUnderWay(p) == fcall[p].tool = "write_file" /\ flocal[p].path # <<>>

\* C3: at every step of a write_file call, a failure or a crash before the
\* rename included, the target holds what it held when the call started
\* (or is still absent); once renamed it holds exactly the new content.
C3_TargetOldOrNew ==
    \A p \in FileProcs :
        WriteUnderWay(p) =>
            View(names, data, flocal[p].path) =
                IF flocal[p].renamed
                THEN [kind |-> "file", data |-> fcall[p].content]
                ELSE flocal[p].old

\* the call died after the first of the two chunks reached the temporary
\* file: the target still holds the old content
C3_Witness ==
    /\ fpc["w1"] = "crashed"
    /\ WriteUnderWay("w1")
    /\ ~flocal["w1"].renamed
    /\ fcall["w1"].content = ContentA
    /\ View(names, data, TempPath(flocal["w1"].path)).data = <<Chunk("A", 1)>>
    /\ View(names, data, flocal["w1"].path) = [kind |-> "file", data |-> OldContent]

RestrictedNames == {N.etc, N.usr, N.bin, N.sbin, N.var, N.root, N.home}
UnderRestricted(path) == path # <<>> /\ path[1] \in RestrictedNames

AccessDenied(outcome) ==
    /\ ~outcome.ok
    /\ Len(outcome.msg) = 5
    /\ outcome.msg[2] = "Invalid path: "
    /\ outcome.msg[3] = "Access to "
    /\ outcome.msg[5] = " is restricted"

\* C4: a read_file, write_file or list_directory call on a path whose
\* resolved form lies under /etc, /usr, /bin, /sbin, /var, /root or /home
\* ends at once with the access-denied error: it reads nothing and leaves
\* every file and directory as it was.
C4_RestrictedIsDenied ==
    [][\A p \in FileProcs :
          (/\ fpc[p] = "idle"
           /\ fpc'[p] # "idle"
           /\ fcall'[p].file_path # EmptyPath
           /\ UnderRestricted(Resolve(fcall'[p].file_path))) =>
              /\ fpc'[p] = "done"
              /\ AccessDenied(fout'[p])
              /\ flocal'[p].reads = {}
              /\ names' = names
              /\ data' = data]_vars

\* a write through ".." into /etc/new, which does not exist, was denied and
\* /etc/new was not created
C4_Witness ==
    /\ fpc["w1"] = "done"
    /\ fcall["w1"].tool = "write_file"
    /\ fcall["w1"].file_path = PathArg(FALSE, <<DotDot, N.etc, N.new, N.a_txt>>)
    /\ AccessDenied(fout["w1"])
    /\ names[<<N.etc, N.new>>] = Absent

ReadAfterWrite(p) ==
    /\ fpc[p] = "done"
    /\ fcall[p].tool = "read_file"
    /\ written.path # <<>>
    /\ flocal[p].path = written.path

\* C11: a read_file of a path after a write_file of that path that
\* returned, with no other write_file of the path in between, returns
\* exactly the content written, and characters is its length.
C11_WriteReadRoundTrip ==
    \A p \in FileProcs :
        ReadAfterWrite(p) =>
            /\ fout[p].ok
            /\ fout[p].content = written.content
            /\ fout[p].characters = Len(written.content)

BackupDue(p) == fcall[p].create_backup /\ flocal[p].old.kind # "absent"

\* C12: write_file with create_backup on a target that exists leaves, from
\* before the rename on, a .backup sibling holding what the target held
\* before the call; a call with create_backup false or on an absent target
\* neither creates nor changes the backup file, and backup_created says
\* which of the two happened.
C12_BackupHoldsOldContent ==
    /\ [](\A p \in FileProcs :
            /\ (WriteUnderWay(p) /\ BackupDue(p) /\ flocal[p].renamed) =>
                  View(names, data, BackupPath(flocal[p].path)) = flocal[p].old
            /\ (fcall[p].tool = "write_file" /\ fout[p].ok) =>
                  fout[p].backup_created = BackupDue(p))
    /\ [][\A p \in FileProcs :
            (WriteUnderWay(p) /\ ~BackupDue(p) /\ fpc[p] \in WritingPcs \cup {"return"}) =>
                View(names', data', BackupPath(flocal[p].path))
                    = View(names, data, BackupPath(flocal[p].path))]_vars

ReadFailed(p, text) == ~fout[p].ok /\ fout[p].msg[2] = text /\ flocal[p].reads = {}

\* C13: read_file of a path that passes validation fails with "File not
\* found" when the path is absent, else with "Path is not a file" when it
\* is a directory, else with "File extension not allowed" when its suffix
\* is outside the allow-list; none of the three reads any content.
C13_ReadChecksInOrder ==
    \A p \in FileProcs :
        (/\ fpc[p] = "done"
         /\ fcall[p].tool = "read_file"
         /\ fcall[p].file_path # EmptyPath
         /\ validate_path(fcall[p].file_path).ok) =>
            LET path == Resolve(fcall[p].file_path)
            IN  /\ names[path].kind = "absent" => ReadFailed(p, "File not found: ")
                /\ names[path].kind = "dir" => ReadFailed(p, "Path is not a file: ")
                /\ (names[path].kind = "file" /\ Suffix(path) \notin ALLOWED_EXTENSIONS) =>
                      ReadFailed(p, "File extension not allowed: ")

\* a missing file with a suffix outside the allow-list reports "not found"
C13_Witness ==
    /\ fpc["w1"] = "done"
    /\ fcall["w1"].tool = "read_file"
    /\ fcall["w1"].file_path = PathArg(FALSE, <<N.d, N.a_bin>>)
    /\ ReadFailed("w1", "File not found: ")

\* C23: no call of read_file, write_file, list_directory, analyze_csv or
\* process_json reads a file or a directory whose resolved path lies under
\* /etc, /usr, /bin, /sbin, /var, /root or /home
C23_NoToolReadsRestricted ==
    \A p \in FileProcs :
        fcall[p].tool \in {"read_file", "write_file", "list_directory",
                           "analyze_csv", "process_json"}
          => \A q \in flocal[p].reads : ~UnderRestricted(q)

\* C24: _validate_path accepts every path whose resolved form is not under
\* one of the seven restricted directories and has no ".." component, such
\* as a..b.txt and /variable/a.txt: no call on such a path ends with the
\* invalid-path error
C24_OtherPathsAreAccepted ==
    \A p \in FileProcs :
        (/\ fpc[p] = "done"
         /\ fcall[p].tool \in {"read_file", "write_file", "list_directory"}
         /\ fcall[p].file_path # EmptyPath
         /\ ~UnderRestricted(Resolve(fcall[p].file_path))
         /\ \A i \in 1..Len(Resolve(fcall[p].file_path)) :
               Resolve(fcall[p].file_path)[i] # DotDot)
          => ~(/\ ~fout[p].ok
               /\ Len(fout[p].msg) > 1
               /\ fout[p].msg[2] = "Invalid path: ")

\* C27: a recursive listing without hidden entries and with a name filter
\* holds every file below the directory whose name contains the filter and
\* that is neither hidden nor inside a hidden directory, and no entry whose
\* name starts with "." or does not contain the filter
C27_RecursiveFilteredListing ==
    \A p \in FileProcs :
        (/\ fpc[p] = "done"
         /\ fout[p].ok
         /\ fcall[p].tool = "list_directory"
         /\ fcall[p].recursive
         /\ ~fcall[p].include_hidden
         /\ fcall[p].file_filter # <<>>)
          => LET root == flocal[p].path
                 f == fcall[p].file_filter
             IN  /\ \A q \in FsPaths :
                       (/\ Len(q) > Len(root)
                        /\ SubSeq(q, 1, Len(root)) = root
                        /\ names[q].kind = "file"
                        /\ Contains(q[Len(q)], f)
                        /\ \A k \in (Len(root) + 1)..Len(q) : q[k][1] # ".")
                         => q \in fout[p].files
                 /\ \A q \in fout[p].files \cup fout[p].directories :
                       q[Len(q)][1] # "." /\ Contains(q[Len(q)], f)

\* C22: when two write_file calls to the same target have both ended, the
\* target holds the whole content of one call that succeeded and nothing
\* else, and it holds what it held before when both calls failed
C22_ConcurrentWritersOneWins ==
    LET target == View(names, data, <<N.srv, N.a_txt>>)
        succeeded == {p \in FileProcs : fout[p].ok}
    IN  (ncalls = 2 /\ \A p \in FileProcs : fpc[p] = "done" /\ fcall[p].tool = "write_file")
          => /\ target.kind = "file"
             /\ succeeded = {} => target.data = OldContent
             /\ succeeded # {} => \E p \in succeeded : target.data = fcall[p].content

----------------------------------------------------------------------------
(* Claims about the resource, prompt and data handlers, checked under     *)
(* SpecRequests                                                           *)

\* C14: every registered resource of the file:// or the system:// scheme
\* (system://status and system://logs among them) is read and its content
\* returned, and "Unsupported resource type" is the answer to uris of other
\* schemes only
C14_FileAndSystemSchemesAreRead ==
    /\ (resource.uri \in Resources /\ resource.uri[1] = "system://") => resource.ok
    /\ (resource.uri # <<>> /\ ~resource.ok
            /\ Head(resource.text) = "Unsupported resource type: ")
          => resource.uri[1] \notin {"file://", "system://"}

\* the template with each placeholder whose key is an argument replaced by
\* that argument's value, all at once
RECURSIVE FillTemplate(_, _)
FillTemplate(template, arguments) ==
    IF template = <<>> THEN <<>>
    ELSE IF Len(template) >= 3 /\ template[1] = "{" /\ template[3] = "}"
            /\ \E i \in 1..Len(arguments) : arguments[i].key = template[2]
    THEN LET i == CHOOSE i \in 1..Len(arguments) : arguments[i].key = template[2]
         IN  arguments[i].value \o FillTemplate(SubSeq(template, 4, Len(template)), arguments)
    ELSE <<Head(template)>> \o FillTemplate(Tail(template), arguments)

\* C15: the description returned for a registered prompt is its template
\* with every placeholder of the template whose key is an argument replaced
\* by the argument's value and everything else verbatim, whatever the order
\* of the arguments and also when a value holds a placeholder itself
C15_PlaceholdersOfTheTemplateOnly ==
    prompt.ok => prompt.description = FillTemplate(Prompts[prompt.name], prompt.arguments)

\* the node one segment away from a node: the field of that name of an
\* object, the item of that decimal index of an array, 0 when there is none
StepTo(node, segment) ==
    IF JsonData[node].kind = "dict" /\ segment \in DOMAIN JsonData[node].fields
    THEN JsonData[node].fields[segment]
    ELSE IF JsonData[node].kind = "list" /\ IsDigits(segment)
            /\ DecVal(segment) < Len(JsonData[node].items)
    THEN JsonData[node].items[DecVal(segment) + 1]
    ELSE 0

\* the node a dot-separated path leads to from a node, 0 when a segment
\* leads nowhere; segment is the part of the current segment read so far
RECURSIVE Reached(_, _, _)
Reached(node, segment, rest) ==
    IF rest = <<>> THEN StepTo(node, segment)
    ELSE IF Head(rest) # "." THEN Reached(node, Append(segment, Head(rest)), Tail(rest))
    ELSE IF StepTo(node, segment) = 0 THEN 0
    ELSE Reached(StepTo(node, segment), <<>>, Tail(rest))

\* C16: an extract with a non-empty path whose every segment names a key of
\* the object or a decimal index of the array reached so far returns the
\* value at the end of the path as extracted_data
C16_ExtractFollowsThePath ==
    (json.operation = "extract" /\ json.json_path # <<>>
        /\ Reached(1, <<>>, json.json_path) # 0)
      => json.ok /\ json.extracted = Reached(1, <<>>, json.json_path)

\* metadata.total gives 2
C16_Witness ==
    /\ json.operation = "extract"
    /\ json.json_path = K.metadata \o <<".">> \o K.total
    /\ json.ok
    /\ JsonData[json.extracted].kind = "int"
    /\ JsonData[json.extracted].value = 2

\* what is wrong with the first segment of a path that leads nowhere:
\* "none" when the path leads to a value
RECURSIVE Problem(_, _, _)
Problem(node, segment, rest) ==
    LET numeric == \/ IsDigits(segment)
                   \/ Len(segment) > 1 /\ segment[1] = "-" /\ IsDigits(Tail(segment))
    IN  IF rest # <<>> /\ Head(rest) # "."
        THEN Problem(node, Append(segment, Head(rest)), Tail(rest))
        ELSE IF StepTo(node, segment) # 0
        THEN IF rest = <<>> THEN "none" ELSE Problem(StepTo(node, segment), <<>>, Tail(rest))
        ELSE IF JsonData[node].kind = "dict" THEN "PathNotFound"
        ELSE IF JsonData[node].kind = "list"
        THEN IF numeric THEN "IndexOutOfRange" ELSE "InvalidPathSegment"
        ELSE "NotAContainer"

\* C17: an extract whose path meets, at any depth, a segment that is not a
\* key of the object reached fails with the missing-key error, one that is
\* a negative or too large index of the array reached with the
\* index-out-of-range error, one that is not a number on an array with the
\* invalid-index error; extracted_data is not returned
C17_ExtractFailures ==
    LET problem == Problem(1, <<>>, json.json_path)
    IN  (json.operation = "extract" /\ json.json_path # <<>>
            /\ problem \in {"PathNotFound", "IndexOutOfRange", "InvalidPathSegment"})
          => /\ ~json.ok
             /\ json.extracted = 0
             /\ problem = "PathNotFound"
                   <=> json.exc = "KeyError" /\ json.msg = "Key '<current>' not found"
             /\ problem = "IndexOutOfRange"
                   <=> json.exc = "IndexError" /\ json.msg = "Index <index> out of range"
             /\ problem = "InvalidPathSegment"
                   <=> json.exc = "ValueError" /\ json.msg = "Invalid array index: <current>"

\* a word as index of the array at the third level
C17_Witness ==
    /\ json.operation = "extract"
    /\ json.json_path = K.grid \o <<".", "0", ".", "x">>
    /\ ~json.ok
    /\ json.exc = "ValueError"

\* the sum of the missing percentages of the columns
RECURSIVE TotalMissing(_, _)
TotalMissing(missing_values, cols) ==
    IF cols = {} THEN RZero
    ELSE LET c == CHOOSE c \in cols : TRUE
         IN  RAdd(missing_values[c], TotalMissing(missing_values, cols \ {c}))

\* 100 minus the average missing percentage, 0 when that is negative
FlooredScore(missing_values) ==
    LET cols == DOMAIN missing_values
        score == RSub(Rat(100), RDiv(TotalMissing(missing_values, cols),
                                     Rat(Cardinality(cols))))
    IN  IF RLt(score, RZero) THEN RZero ELSE score

\* C18: a detailed report of any data with a missing_values mapping has as
\* data quality score 100 minus the average missing percentage, at least 0,
\* and 100 when the data has no missing_values; the score is between 0 and
\* 100 when no percentage is negative
C18_QualityScore ==
    (report.report_type = "detailed" /\ report.data.keys # {})
      => /\ report.ok
         /\ "missing_values" \notin report.data.keys
               => report.data_quality_score = Rat(100)
         /\ ("missing_values" \in report.data.keys
                /\ DOMAIN report.data.missing_values # {})
               => report.data_quality_score = FlooredScore(report.data.missing_values)
         /\ RLe(RZero, report.data_quality_score)
         /\ RLe(report.data_quality_score, Rat(100))

\* C19: a summary report of any output of analyze_csv succeeds, its
\* high-missing finding names exactly the columns with more than 20 percent
\* missing, and each of them is among the affected fields of the
\* recommendation
C19_SummaryOfAnyAnalysis ==
    (report.report_type = "summary" /\ "numeric_statistics" \in report.data.keys)
      => /\ report.ok
         /\ \A col \in report.high_missing :
               /\ RLt(Rat(20), report.data.missing_values[col])
               /\ col \in report.affected_fields

----------------------------------------------------------------------------
(* Claims about the permit pool, checked under SpecWeb *)

\* the calls between permit acquisition and release: those in their body
\* and those whose future has been given its permit
PermitHolders ==
    {p \in WebProcs : wpc[p] = "holding"}
      \cup {semWaiters[i].proc : i \in {j \in 1..Len(semWaiters) : semWaiters[j].done}}

InBody == {p \in WebProcs : wpc[p] = "holding"}

\* C5: at most 5 fetch_webpage/download_file calls hold a permit at a time,
\* and a call that arrives while 5 are in flight is suspended and enters
\* its body only when fewer than 5 are in theirs.
C5_AtMostFivePermits ==
    /\ [](Cardinality(PermitHolders) <= 5)
    /\ [][\A p \in WebProcs :
            /\ (wpc[p] = "idle" /\ wpc'[p] # wpc[p] /\ Cardinality(InBody) = 5) =>
                  wpc'[p] = "waiting"
            /\ (wpc[p] = "waiting" /\ wpc'[p] # "waiting") =>
                  Cardinality(InBody) < 5]_vars

C5_Witness ==
    /\ Cardinality(InBody) = 5
    /\ \E p \in WebProcs : wpc[p] = "waiting"
    /\ \A i \in 1..Len(semWaiters) : ~semWaiters[i].done

\* the calls that wait for a permit: their future is queued and not done
Pending == {semWaiters[i].proc : i \in {j \in 1..Len(semWaiters) : ~semWaiters[j].done}}

\* C21: the calls that wait because all permits are held get their permit
\* in the order in which they started to wait: when a call is given a
\* permit, no call that was made before it is still waiting for one
C21_AdmittedInArrivalOrder ==
    [][\A p \in WebProcs :
          (p \notin PermitHolders /\ wpc[p] # "done"
              /\ (p \in PermitHolders' \/ (wpc[p] = "idle" /\ wpc'[p] = "done")))
            => \A q \in Pending : q < p => q \notin Pending']_vars

\* two calls wait, the one that came first has been given a permit and
\* the other has not
C21_Witness ==
    /\ Len(semWaiters) = 2
    /\ semWaiters[1].proc < semWaiters[2].proc
    /\ semWaiters[1].done
    /\ ~semWaiters[2].done

\* C30: a call gives its permit back however it leaves the handler, so the
\* free permits are always 5 minus the calls between acquisition and
\* release, and a call that waits is admitted in the end when the admitted
\* calls come to an end
C30_PermitsComeBack ==
    /\ [](semValue = MAX_CONCURRENT_REQUESTS - Cardinality(PermitHolders))
    /\ \A p \in WebProcs : (wpc[p] = "waiting") ~> (wpc[p] \in {"holding", "done"})

\* a call has left the handler and the permit it gave back went to the
\* call at the head of the queue
C30_Witness ==
    /\ \E p \in WebProcs : wpc[p] = "done"
    /\ semWaiters # <<>>
    /\ semWaiters[1].done
    /\ semValue = 0

\* the first segment of a path that leads nowhere from a node, <<>> when
\* the path leads to a value
RECURSIVE FailedSegment(_, _, _)
FailedSegment(node, segment, rest) ==
    IF rest # <<>> /\ Head(rest) # "."
    THEN FailedSegment(node, Append(segment, Head(rest)), Tail(rest))
    ELSE IF StepTo(node, segment) = 0 THEN segment
    ELSE IF rest = <<>> THEN <<>>
    ELSE FailedSegment(StepTo(node, segment), <<>>, Tail(rest))

\* C29: when an extract fails, the message names the segment that failed,
\* at any depth: for grid.0.x, where grid is [[1]], it names x and not one
\* of the segments before it
C29_MessageNamesTheFailedSegment ==
    (json.operation = "extract" /\ json.json_path # <<>> /\ ~json.ok)
      => json.seg = FailedSegment(1, <<>>, json.json_path)

\* C28: "analyze" of a string of at most 100 characters gives the string
\* itself as the value, and of a longer string its first 100 characters
\* followed by "..."
C28_PreviewOfStrings ==
    (json.operation = "analyze" /\ json.root_type = "str" /\ json.ok)
      => json.value = IF Len(json.document) <= 100 THEN json.document
                      ELSE SubSeq(json.document, 1, 100) \o <<".", ".", ".">>

\* C25: the catalog is the same after every callTool, readResource and
\* getPrompt: listTools returns 20 names, no two of them the same, the names
\* callTool routes to a handler are the names listTools returns, and a
\* later listTools returns what an earlier one returned
C25_CatalogIsFixed ==
    /\ [](toolList # <<>> =>
            /\ Len(toolList) = 20
            /\ \A i, j \in 1..Len(toolList) : toolList[i] = toolList[j] => i = j
            /\ \A i \in 1..Len(toolList) : Route(toolList[i]) # "none"
            /\ \A name \in RegisteredTools
                              \cup {"", "ADD", "add ", "delete_file", "calculate_basic"} :
                  Route(name) # "none" => \E i \in 1..Len(toolList) : toolList[i] = name)
    /\ [][tools' = tools /\ (toolList # <<>> => toolList' = toolList)]_vars

\* the names are toolList after a routed call, a call of an unknown name, a
\* resource read or a prompt
C25_Witness ==
    /\ toolList # <<>>
    /\ Dispatched
    /\ prompt.ok \/ resource.ok \/ ran = "none"

\* the name download_file opens for the arguments of the call
LocalNameOf(call) ==
    IF call.filename_arg # <<>> THEN call.filename_arg
    ELSE IF call.url.last # <<>> THEN call.url.last
    ELSE N.downloaded_file

\* the call is refused before any byte of the body is read: the url is
\* missing or not http(s), the file name holds ".." or "/", the status is
\* not 200 or the Content-Length is above the ceiling
RefusedBeforeTransfer(call) ==
    \/ ~call.url.given
    \/ call.url.scheme \notin {"http", "https"}
    \/ Contains(LocalNameOf(call), <<".", ".">>)
    \/ Contains(LocalNameOf(call), <<"/">>)
    \/ call.response.status \notin {0, 200}
    \/ call.response.content_length > MAX_RESPONSE_SIZE

\* C26: a download whose received bytes pass the ceiling ends with the
\* too-large error and leaves the local file with more than the ceiling and
\* at most the ceiling and one chunk of 8192 bytes; a download refused
\* before the transfer fails and leaves every local file as it was
C26_DownloadCeiling ==
    /\ download.downloaded_size > MAX_RESPONSE_SIZE =>
          /\ download.pc = "done"
          /\ ~download.ok
          /\ download.msg = "Download failed: File too large: <downloaded_size> bytes"
          /\ disk[download.filename].exists
          /\ disk[download.filename].size > MAX_RESPONSE_SIZE
          /\ disk[download.filename].size <= MAX_RESPONSE_SIZE + ChunkSize
    /\ (download.pc = "done" /\ download.ok) =>
          download.downloaded_size <= MAX_RESPONSE_SIZE
    /\ (download.pc # "idle" /\ RefusedBeforeTransfer(download)) =>
          /\ download.pc = "done"
          /\ ~download.ok
          /\ disk = download.before

\* 128 chunks of 8192 bytes reach the ceiling, the next one passes it: the
\* file that was there before holds the ceiling and 8192 bytes
C26_Witness ==
    /\ download.pc = "done"
    /\ download.filename = N.a_bin
    /\ download.downloaded_size = MAX_RESPONSE_SIZE + ChunkSize
    /\ disk[N.a_bin].size = MAX_RESPONSE_SIZE + ChunkSize

====
